---- MODULE Spec2Model ----
(***************************************************************************)
(* A model of the streaming transport and resilience layer of PerFlexity:  *)
(*   - StreamingService (the streaming service): the SSE read loop, the    *)
(*     line parser, the event dispatcher, the connection state machine and *)
(*     its timers;                                                         *)
(*   - ErrorRecoveryManager (error-recovery.ts): error classification,     *)
(*     backoff and the circuit breaker.                                    *)
(*                                                                         *)
(* Text is a sequence of one-character strings.  A response body is a      *)
(* sequence of bytes: an ASCII byte is written as its character, the two   *)
(* bytes of U+00E9 in UTF-8 as "C3" and "A9".                              *)
(*                                                                         *)
(* Eight specifications share the variables:                               *)
(*   Spec          the service among its callers, servers and timers,      *)
(*                 followed line by line;                                  *)
(*   SpecParse     one stream on a new service, read in chunks of bytes;   *)
(*   SpecRecovery  attemptRecovery calls against one manager;              *)
(*   SpecCalc      one call of classifyError, calculateDelay,              *)
(*                 attemptRecovery or handleConnectionError;               *)
(*   SpecAttempt   one attemptRecovery call from entry to return, with     *)
(*                 fairness;                                               *)
(*   SpecReset     that call with reset() called at any time;              *)
(*   SpecTimed     one stream of the service with the clock, and           *)
(*   SpecTimedFair the same with fairness.                                 *)
(***************************************************************************)
EXTENDS Integers, Sequences, FiniteSets, TLC

(***************************************************************************)
(* Bounds of the model.                                                    *)
(***************************************************************************)
\* lines per response body in the byte-level specification SpecParse
MaxParseLines == 2
\* startStream calls in the service specification Spec
MaxStreams == 2
\* data lines delivered, over all streams, in Spec
MaxLines == 3

(***************************************************************************)
(* The payload texts the model's server sends.                             *)
(***************************************************************************)
\* {"type":"start","conversation_id":"c1"}
TxtStart ==
  << "{", "\"", "t", "y", "p", "e", "\"", ":", "\"", "s", "t", "a", "r", "t", "\"", ",",
     "\"", "c", "o", "n", "v", "e", "r", "s", "a", "t", "i", "o", "n", "_", "i", "d", "\"",
     ":", "\"", "c", "1", "\"", "}" >>

\* {"type":"token","content":"Hel"}
TxtTokenHel ==
  << "{", "\"", "t", "y", "p", "e", "\"", ":", "\"", "t", "o", "k", "e", "n", "\"", ",",
     "\"", "c", "o", "n", "t", "e", "n", "t", "\"", ":", "\"", "H", "e", "l", "\"", "}" >>

\* {"type":"token","content":"lo "}
TxtTokenLo ==
  << "{", "\"", "t", "y", "p", "e", "\"", ":", "\"", "t", "o", "k", "e", "n", "\"", ",",
     "\"", "c", "o", "n", "t", "e", "n", "t", "\"", ":", "\"", "l", "o", " ", "\"", "}" >>

\* {"type":"token","content":"world"}
TxtTokenWorld ==
  << "{", "\"", "t", "y", "p", "e", "\"", ":", "\"", "t", "o", "k", "e", "n", "\"", ",",
     "\"", "c", "o", "n", "t", "e", "n", "t", "\"", ":", "\"", "w", "o", "r", "l", "d",
     "\"", "}" >>

\* {"type":"token","content":"\u00e9"}
TxtTokenE9 ==
  << "{", "\"", "t", "y", "p", "e", "\"", ":", "\"", "t", "o", "k", "e", "n", "\"", ",",
     "\"", "c", "o", "n", "t", "e", "n", "t", "\"", ":", "\"", "C3", "A9", "\"", "}" >>

\* {"type":"sources","sources":[{"url":"a","title":"A","excerpt":"x","relevance_score":1},{"url":"b","title":"B","excerpt":"y","relevance_score":2}]}
TxtSources ==
  << "{", "\"", "t", "y", "p", "e", "\"", ":", "\"", "s", "o", "u", "r", "c", "e", "s",
     "\"", ",", "\"", "s", "o", "u", "r", "c", "e", "s", "\"", ":", "[", "{", "\"", "u",
     "r", "l", "\"", ":", "\"", "a", "\"", ",", "\"", "t", "i", "t", "l", "e", "\"", ":",
     "\"", "A", "\"", ",", "\"", "e", "x", "c", "e", "r", "p", "t", "\"", ":", "\"", "x",
     "\"", ",", "\"", "r", "e", "l", "e", "v", "a", "n", "c", "e", "_", "s", "c", "o", "r",
     "e", "\"", ":", "1", "}", ",", "{", "\"", "u", "r", "l", "\"", ":", "\"", "b", "\"",
     ",", "\"", "t", "i", "t", "l", "e", "\"", ":", "\"", "B", "\"", ",", "\"", "e", "x",
     "c", "e", "r", "p", "t", "\"", ":", "\"", "y", "\"", ",", "\"", "r", "e", "l", "e",
     "v", "a", "n", "c", "e", "_", "s", "c", "o", "r", "e", "\"", ":", "2", "}", "]", "}" >>

\* {"type":"claims","claims":[{"id":"k1"}]}
TxtClaims ==
  << "{", "\"", "t", "y", "p", "e", "\"", ":", "\"", "c", "l", "a", "i", "m", "s", "\"",
     ",", "\"", "c", "l", "a", "i", "m", "s", "\"", ":", "[", "{", "\"", "i", "d", "\"",
     ":", "\"", "k", "1", "\"", "}", "]", "}" >>

\* {"type":"citation","id":"c7"}
TxtCitation ==
  << "{", "\"", "t", "y", "p", "e", "\"", ":", "\"", "c", "i", "t", "a", "t", "i", "o",
     "n", "\"", ",", "\"", "i", "d", "\"", ":", "\"", "c", "7", "\"", "}" >>

\* {"type":"citation"}
TxtCitationNoId ==
  << "{", "\"", "t", "y", "p", "e", "\"", ":", "\"", "c", "i", "t", "a", "t", "i", "o",
     "n", "\"", "}" >>

\* {"type":"claim","id":"k2"}
TxtClaim ==
  << "{", "\"", "t", "y", "p", "e", "\"", ":", "\"", "c", "l", "a", "i", "m", "\"", ",",
     "\"", "i", "d", "\"", ":", "\"", "k", "2", "\"", "}" >>

\* {"type":"done"}
TxtDone ==
  << "{", "\"", "t", "y", "p", "e", "\"", ":", "\"", "d", "o", "n", "e", "\"", "}" >>

\* {"type":"error","error":"boom"}
TxtError ==
  << "{", "\"", "t", "y", "p", "e", "\"", ":", "\"", "e", "r", "r", "o", "r", "\"", ",",
     "\"", "e", "r", "r", "o", "r", "\"", ":", "\"", "b", "o", "o", "m", "\"", "}" >>

\* {"type":"error","retry_after":7}
TxtErrorRetry ==
  << "{", "\"", "t", "y", "p", "e", "\"", ":", "\"", "e", "r", "r", "o", "r", "\"", ",",
     "\"", "r", "e", "t", "r", "y", "_", "a", "f", "t", "e", "r", "\"", ":", "7", "}" >>

\* {"type":"heartbeat"}
TxtHeartbeat ==
  << "{", "\"", "t", "y", "p", "e", "\"", ":", "\"", "h", "e", "a", "r", "t", "b", "e",
     "a", "t", "\"", "}" >>

\* {"type":"ping"}
TxtUnknown ==
  << "{", "\"", "t", "y", "p", "e", "\"", ":", "\"", "p", "i", "n", "g", "\"", "}" >>

\* {"content":"x"}
TxtNoType ==
  << "{", "\"", "c", "o", "n", "t", "e", "n", "t", "\"", ":", "\"", "x", "\"", "}" >>

\* null
TxtNull ==
  << "n", "u", "l", "l" >>

\* {"type":"token",
TxtMalformed ==
  << "{", "\"", "t", "y", "p", "e", "\"", ":", "\"", "t", "o", "k", "e", "n", "\"", "," >>

\* [DONE]
TxtDoneSignal ==
  << "[", "D", "O", "N", "E", "]" >>

\* data: 
DataPrefix ==
  << "d", "a", "t", "a", ":", " " >>


(***************************************************************************)
(* String operations of the read loop and the line parser.                 *)
(***************************************************************************)
IsWhitespace(c) == c \in {" ", "\t", "\r", "\n"}

RECURSIVE trimStart(_)
trimStart(s) ==
  IF s # <<>> /\ IsWhitespace(Head(s)) THEN trimStart(Tail(s)) ELSE s

RECURSIVE trimEnd(_)
trimEnd(s) ==
  IF s # <<>> /\ IsWhitespace(s[Len(s)]) THEN trimEnd(SubSeq(s, 1, Len(s) - 1)) ELSE s

\* String.prototype.trim
trim(s) == trimEnd(trimStart(s))

\* String.prototype.startsWith
startsWith(s, p) == Len(s) >= Len(p) /\ SubSeq(s, 1, Len(p)) = p

\* String.prototype.slice(n)
slice(s, n) == SubSeq(s, n + 1, Len(s))

\* String.prototype.split('\n'): the pieces between the newlines, at least one
split(s) ==
  LET n == Len(s)
      nl == SelectSeq([i \in 1..n |-> i], LAMBDA i : s[i] = "\n")
  IN [k \in 1..(Len(nl) + 1) |->
        SubSeq(s, IF k = 1 THEN 1 ELSE nl[k - 1] + 1, IF k > Len(nl) THEN n ELSE nl[k] - 1)]

\* TextDecoder.decode(value, {stream: true}) on the model's bytes: `pending` is
\* the lead byte of a character whose continuation byte has not arrived yet.
\* A lead byte "C3" and the continuation byte "A9" after it are U+00E9; a lead
\* byte followed by anything else, and a continuation byte of its own, are
\* U+FFFD; a lead byte at the end waits for the next chunk.
decode(pending, bytes) ==
  LET all == pending \o bytes
      n == Len(all)
      char(i) ==
        IF all[i] = "C3" THEN (IF i = n \/ all[i + 1] = "A9" THEN "" ELSE "U+FFFD")
        ELSE IF all[i] = "A9" THEN (IF i > 1 /\ all[i - 1] = "C3" THEN "U+E9" ELSE "U+FFFD")
        ELSE all[i]
  IN [text |-> SelectSeq([i \in 1..n |-> char(i)], LAMBDA c : c # ""),
      pending |-> IF n > 0 /\ all[n] = "C3" THEN <<"C3">> ELSE <<>>]

\* the text of a byte sequence that holds whole characters only
Text(bytes) == decode(<<>>, bytes).text

(***************************************************************************)
(* JSON.parse, on the payload texts above; any other text is a syntax      *)
(* error.  A parsed object is a record with the fields the handlers read;  *)
(* "" and 0 stand for an absent field and <<>> for an absent list (all     *)
(* falsy or defaulted the same way by the handlers).                       *)
(***************************************************************************)
Obj ==
  [kind |-> "object", type |-> "", content |-> "", retry_after |-> 0, id |-> "",
   sources |-> <<>>, claims |-> <<>>, conversation_id |-> "", error |-> ""]

Source(url, title, excerpt, score) ==
  [url |-> url, title |-> title, excerpt |-> excerpt, relevance_score |-> score, rank |-> 0]

JsonTable ==
  { <<Text(TxtStart), [Obj EXCEPT !.type = "start", !.conversation_id = "c1"]>>,
    <<Text(TxtTokenHel), [Obj EXCEPT !.type = "token", !.content = "Hel"]>>,
    <<Text(TxtTokenLo), [Obj EXCEPT !.type = "token", !.content = "lo "]>>,
    <<Text(TxtTokenWorld), [Obj EXCEPT !.type = "token", !.content = "world"]>>,
    <<Text(TxtTokenE9), [Obj EXCEPT !.type = "token", !.content = "U+E9"]>>,
    <<Text(TxtSources), [Obj EXCEPT !.type = "sources",
                           !.sources = << Source("a", "A", "x", 1),
                                          Source("b", "B", "y", 2) >>]>>,
    <<Text(TxtClaims), [Obj EXCEPT !.type = "claims", !.claims = <<"k1">>]>>,
    <<Text(TxtCitation), [Obj EXCEPT !.type = "citation", !.id = "c7"]>>,
    <<Text(TxtCitationNoId), [Obj EXCEPT !.type = "citation"]>>,
    <<Text(TxtClaim), [Obj EXCEPT !.type = "claim", !.id = "k2"]>>,
    <<Text(TxtDone), [Obj EXCEPT !.type = "done"]>>,
    <<Text(TxtError), [Obj EXCEPT !.type = "error", !.error = "boom"]>>,
    <<Text(TxtErrorRetry), [Obj EXCEPT !.type = "error", !.retry_after = 7]>>,
    <<Text(TxtHeartbeat), [Obj EXCEPT !.type = "heartbeat"]>>,
    <<Text(TxtUnknown), [Obj EXCEPT !.type = "ping"]>>,
    <<Text(TxtNoType), [Obj EXCEPT !.content = "x"]>>,
    <<Text(TxtNull), [Obj EXCEPT !.kind = "null"]>> }

JSONparse(data) ==
  LET text == trim(data)
      hits == {p \in JsonTable : p[1] = text}
  IN IF hits = {} THEN [ok |-> FALSE, value |-> Obj]
     ELSE [ok |-> TRUE, value |-> (CHOOSE p \in hits : TRUE)[2]]

(***************************************************************************)
(* sourceUtils.ts: what handleSourcesEvent does to a batch of sources.     *)
(***************************************************************************)
\* deduplicateSources' forEach: `map` is the Map's values in insertion order
RECURSIVE dedupFrom(_, _, _)
dedupFrom(sources, i, map) ==
  IF i > Len(sources) THEN map
  ELSE LET source == sources[i]
           at == {k \in 1..Len(map) : map[k].url = source.url}
       IN IF at = {}
          THEN dedupFrom(sources, i + 1, Append(map, [source EXCEPT !.rank = i]))
          ELSE LET k == CHOOSE x \in at : TRUE
               IN IF source.relevance_score > map[k].relevance_score
                  THEN dedupFrom(sources, i + 1,
                                 [map EXCEPT ![k] = [source EXCEPT !.rank = map[k].rank]])
                  ELSE dedupFrom(sources, i + 1, map)

\* Array.prototype.sort((a, b) => b.relevance_score - a.relevance_score), stable
RECURSIVE sortByScore(_)
sortByScore(s) ==
  IF s = <<>> THEN <<>>
  ELSE LET rest == sortByScore(SubSeq(s, 1, Len(s) - 1))
           x == s[Len(s)]
           before == {k \in 1..Len(rest) : rest[k].relevance_score >= x.relevance_score}
           n == Cardinality(before)
       IN SubSeq(rest, 1, n) \o <<x>> \o SubSeq(rest, n + 1, Len(rest))

deduplicateSources(sources) ==
  LET sorted == sortByScore(dedupFrom(sources, 1, <<>>))
  IN SubSeq(sorted, 1, IF Len(sorted) < 6 THEN Len(sorted) ELSE 6)

\* the model's titles carry none of the suffixes the regular expressions remove
\* but " - Wikipedia"
cleanSourceTitle(title) == IF title = "A - Wikipedia" THEN "A" ELSE title

\* the model's excerpts do not end in "..."
cleanExcerpt(excerpt) == excerpt

enhanceSources(sources) ==
  [k \in 1..Len(sources) |->
     [sources[k] EXCEPT !.title = cleanSourceTitle(@), !.excerpt = cleanExcerpt(@)]]

processSources(rawSources) == enhanceSources(deduplicateSources(rawSources))

(***************************************************************************)
(* The state.                                                              *)
(*                                                                         *)
(*   config   the SSEConfig of the service                                 *)
(*   svc      the fields of the service object, with the timers of the     *)
(*            event loop (setTimeout callbacks not yet run) and the        *)
(*            handler invocations made (every handler registered)          *)
(* Spec, the service and its callers:                                      *)
(*   streams  the startStream calls made: each one's position in           *)
(*            connectEventSource/processStream and the text of its tokens  *)
(*   nlines   the lines the read loops have processed                      *)
(*   closed   closeConnection was called and startStream not since         *)
(* SpecParse, processStream at the level of bytes:                         *)
(*   body     the response body, as the sequence of its pieces              *)
(*   pos      how many of its bytes reader.read() has returned              *)
(*   rd       the position in startStream/processStream and the locals of  *)
(*            processStream: buffer and the decoder's pending byte         *)
(* SpecRecovery, the ErrorRecoveryManager and its callers:                 *)
(*   rcfg     the ErrorRecoveryConfig of the manager                       *)
(*   erm      the fields of the manager, and how often the recovery        *)
(*            function was invoked                                         *)
(*   tasks    the attemptRecovery calls made: each one's position          *)
(*   now      Date.now(), in milliseconds                                  *)
(* SpecCalc, single calls of the manager's and the service's functions:   *)
(*   calc     the function called last, its arguments and its result       *)
(***************************************************************************)
VARIABLES config, svc, streams, nlines, closed, body, pos, rd, rcfg, erm, tasks, now,
          calc

vars ==
  <<config, svc, streams, nlines, closed, body, pos, rd, rcfg, erm, tasks, now, calc>>

\* DEFAULT_SSE_CONFIG
DefaultMaxRetries == 5
DefaultRetryDelay == 1000
DefaultHeartbeatInterval == 30000
\* attemptReconnection's cap on the delay
RetryDelayCap == 30000

DEFAULT_SSE_CONFIG ==
  [maxRetries |-> DefaultMaxRetries, retryDelay |-> DefaultRetryDelay,
   heartbeatInterval |-> DefaultHeartbeatInterval, enableReconnect |-> TRUE]

\* the event object a handler is called with: the fields the handlers fill
Ev ==
  [type |-> "", content |-> "", id |-> "", retry_after |-> 0, sources |-> <<>>,
   claims |-> <<>>, conversation_id |-> "", error |-> "", code |-> ""]

\* the service after its constructor
NewService ==
  [state |-> "disconnected", connected |-> FALSE, lastEventTime |-> "null",
   retryCount |-> 0, error |-> "null",
   retryTimeout |-> 0, heartbeatTimeout |-> 0,
   currentMessage |-> "", currentSources |-> <<>>, currentCitations |-> <<>>,
   currentClaims |-> <<>>, currentClaimsGroup |-> <<>>,
   timers |-> {}, nextTimer |-> 1,
   calls |-> <<>>, dispatched |-> <<>>, lastNotified |-> "none", notified |-> <<>>]

\* this.handlers.onX?.(event); `via` is the caller: handleSSEEvent for a
\* recognised event ("event"), processSSELine's catch ("parse") or
\* handleConnectionError ("transport")
invoke(s, h, event, via) ==
  [s EXCEPT !.calls = Append(@, [handler |-> h, event |-> event, via |-> via])]

\* setTimeout(callback, delay): `kind` names the callback, and the timer is
\* due `delay` milliseconds from now
setTimeout(s, kind, delay) ==
  [s EXCEPT !.timers = @ \cup {[id |-> s.nextTimer, kind |-> kind, delay |-> delay,
                                due |-> now + delay]},
            !.nextTimer = @ + 1]

clearTimeout(s, id) == [s EXCEPT !.timers = {t \in @ : t.id # id}]

\* a faulty updateConnectionState that notifies the handler of every call
updateConnectionStateAlways(s, state) ==
  IF s.state # state
  THEN LET s1 == [s EXCEPT !.state = state, !.connected = (state = "connected")]
           s2 == IF state = "connected"
                 THEN [s1 EXCEPT !.retryCount = 0, !.error = "null"]
                 ELSE s1
       IN [s2 EXCEPT !.lastNotified = state, !.notified = Append(@, state)]
  ELSE [s EXCEPT !.lastNotified = state, !.notified = Append(@, state)]

\* notified holds the states onConnectionStateChange was invoked with
updateConnectionState(s, state) ==
  IF s.state # state
  THEN LET s1 == [s EXCEPT !.state = state, !.connected = (state = "connected")]
           s2 == IF state = "connected"
                 THEN [s1 EXCEPT !.retryCount = 0, !.error = "null"]
                 ELSE s1
       IN [s2 EXCEPT !.lastNotified = state, !.notified = Append(@, state)]
  ELSE s

\* a faulty createSSEError that takes auth_error for a retryable type
createSSEErrorAuthRetryable(type) ==
  [type |-> type,
   retryable |-> type \in {"connection_failed", "connection_lost", "network_error",
                           "timeout_error", "server_error", "auth_error"}]

createSSEError(type) ==
  [type |-> type,
   retryable |-> type \in {"connection_failed", "connection_lost", "network_error",
                           "timeout_error", "server_error"}]

\* a faulty attemptReconnection that starts over with an empty message
attemptReconnectionFresh(s) ==
  LET s1 == updateConnectionState([s EXCEPT !.retryCount = @ + 1], "reconnecting")
      d == config.retryDelay * 2 ^ (s1.retryCount - 1)
      delay == IF d < RetryDelayCap THEN d ELSE RetryDelayCap
  IN [setTimeout(s1, "retry", delay) EXCEPT !.retryTimeout = s1.nextTimer,
                                            !.currentMessage = ""]

attemptReconnection(s) ==
  LET s1 == updateConnectionState([s EXCEPT !.retryCount = @ + 1], "reconnecting")
      d == config.retryDelay * 2 ^ (s1.retryCount - 1)
      delay == IF d < RetryDelayCap THEN d ELSE RetryDelayCap
  IN [setTimeout(s1, "retry", delay) EXCEPT !.retryTimeout = s1.nextTimer]

handleConnectionError(s, error, message) ==
  LET s1 == updateConnectionState([s EXCEPT !.error = error.type], "error")
      s2 == invoke(s1, "onError", [Ev EXCEPT !.type = "error", !.error = message], "transport")
  IN IF error.retryable /\ config.enableReconnect /\ s2.retryCount < config.maxRetries
     THEN attemptReconnection(s2)
     ELSE s2

resetHeartbeatTimeout(s) ==
  LET s1 == IF s.heartbeatTimeout # 0 THEN clearTimeout(s, s.heartbeatTimeout) ELSE s
  IN [setTimeout(s1, "heartbeat", config.heartbeatInterval * 2)
        EXCEPT !.heartbeatTimeout = s1.nextTimer]

(***************************************************************************)
(* The event handlers.                                                     *)
(***************************************************************************)
handleStartEvent(s, data) ==
  invoke(s, "onStart",
         [Ev EXCEPT !.type = "start", !.conversation_id = data.conversation_id], "event")

handleSourcesEvent(s, data) ==
  LET event == [Ev EXCEPT !.type = "sources", !.sources = processSources(data.sources)]
  IN invoke([s EXCEPT !.currentSources = Append(@, event)], "onSources", event, "event")

handleClaimsEvent(s, data) ==
  LET event == [Ev EXCEPT !.type = "claims", !.claims = data.claims]
  IN invoke([s EXCEPT !.currentClaimsGroup = Append(@, event)], "onClaims", event, "event")

handleDoneEvent(s, data) ==
  updateConnectionState(invoke(s, "onDone", [Ev EXCEPT !.type = "done"], "event"), "disconnected")

\* a faulty handleTokenEvent that puts the content in front of the message
handleTokenEventPrepend(s, data) ==
  LET event == [Ev EXCEPT !.type = "token", !.content = data.content]
  IN invoke([s EXCEPT !.currentMessage = event.content \o @], "onToken", event, "event")

handleTokenEvent(s, data) ==
  LET event == [Ev EXCEPT !.type = "token", !.content = data.content]
  IN invoke([s EXCEPT !.currentMessage = @ \o event.content], "onToken", event, "event")

\* an absent id is replaced by `citation-${Date.now()}`
handleCitationEvent(s, data) ==
  LET event == [Ev EXCEPT !.type = "citation",
                          !.id = IF data.id = "" THEN "citation-now" ELSE data.id]
  IN invoke([s EXCEPT !.currentCitations = Append(@, event)], "onCitation", event, "event")

handleClaimEvent(s, data) ==
  LET event == [Ev EXCEPT !.type = "claim",
                          !.id = IF data.id = "" THEN "claim-now" ELSE data.id]
  IN invoke([s EXCEPT !.currentClaims = Append(@, event)], "onClaim", event, "event")

\* a faulty handleErrorEvent that does not look at enableReconnect
handleErrorEventAlways(s, data) ==
  LET event == [Ev EXCEPT !.type = "error",
                          !.error = IF data.error = "" THEN "Unknown error" ELSE data.error,
                          !.retry_after = data.retry_after]
      s1 == invoke(s, "onError", event, "event")
  IN IF event.retry_after # 0
     THEN setTimeout(s1, "retry_after", event.retry_after)
     ELSE s1

handleErrorEvent(s, data) ==
  LET event == [Ev EXCEPT !.type = "error",
                          !.error = IF data.error = "" THEN "Unknown error" ELSE data.error,
                          !.retry_after = data.retry_after]
      s1 == invoke(s, "onError", event, "event")
  IN IF event.retry_after # 0 /\ config.enableReconnect
     THEN setTimeout(s1, "retry_after", event.retry_after)
     ELSE s1

handleHeartbeatEvent(s, data) == resetHeartbeatTimeout(s)

handleSSEEvent(s, eventData) ==
  LET s0 == [s EXCEPT !.dispatched = Append(@, eventData)]
  IN IF eventData.type = "" THEN s0
     ELSE LET s1 == [s0 EXCEPT !.lastEventTime = "set"]
          IN CASE eventData.type = "start" -> handleStartEvent(s1, eventData)
               [] eventData.type = "token" -> handleTokenEvent(s1, eventData)
               [] eventData.type = "sources" -> handleSourcesEvent(s1, eventData)
               [] eventData.type = "claims" -> handleClaimsEvent(s1, eventData)
               [] eventData.type = "citation" -> handleCitationEvent(s1, eventData)
               [] eventData.type = "claim" -> handleClaimEvent(s1, eventData)
               [] eventData.type = "done" -> handleDoneEvent(s1, eventData)
               [] eventData.type = "error" -> handleErrorEvent(s1, eventData)
               [] eventData.type = "heartbeat" -> handleHeartbeatEvent(s1, eventData)
               [] OTHER -> s1

\* a faulty processSSELine that takes a line it cannot parse for a failure of
\* the connection
processSSELineParseFatal(s, line) ==
  LET trimmedLine == trim(line)
  IN IF trimmedLine = <<>> \/ startsWith(trimmedLine, <<":">>) THEN s
     ELSE IF startsWith(trimmedLine, DataPrefix)
     THEN LET data == slice(trimmedLine, 6)
              parsed == JSONparse(data)
          IN IF data = TxtDoneSignal THEN updateConnectionState(s, "disconnected")
             ELSE IF parsed.ok /\ parsed.value.kind = "object"
             THEN handleSSEEvent(s, parsed.value)
             ELSE handleConnectionError(
                    invoke(s, "onError",
                           [Ev EXCEPT !.type = "error",
                                      !.error = "Failed to parse streaming data",
                                      !.code = "PARSE_ERROR"], "parse"),
                    createSSEError("parse_error"), "Failed to parse streaming data")
     ELSE s

\* reading `.type` of null throws, which processSSELine's catch reports like a
\* syntax error of JSON.parse
processSSELine(s, line) ==
  LET trimmedLine == trim(line)
  IN IF trimmedLine = <<>> \/ startsWith(trimmedLine, <<":">>) THEN s
     ELSE IF startsWith(trimmedLine, DataPrefix)
     THEN LET data == slice(trimmedLine, 6)
              parsed == JSONparse(data)
          IN IF data = TxtDoneSignal THEN updateConnectionState(s, "disconnected")
             ELSE IF parsed.ok /\ parsed.value.kind = "object"
             THEN handleSSEEvent(s, parsed.value)
             ELSE invoke(s, "onError",
                         [Ev EXCEPT !.type = "error",
                                    !.error = "Failed to parse streaming data",
                                    !.code = "PARSE_ERROR"], "parse")
     ELSE s

\* a faulty callback whose retry_after timer does not look at retryCount
timerCallbackUnguarded(s, t) ==
  CASE t.kind = "retry" -> s
    [] t.kind = "retry_after" -> attemptReconnection(s)
    [] t.kind = "heartbeat" ->
         handleConnectionError(s, createSSEError("timeout_error"), "Heartbeat timeout")

\* the callback of a timer that fires
timerCallback(s, t) ==
  CASE t.kind = "retry" -> s
    [] t.kind = "retry_after" ->
         IF s.retryCount < config.maxRetries THEN attemptReconnection(s) ELSE s
    [] t.kind = "heartbeat" ->
         handleConnectionError(s, createSSEError("timeout_error"), "Heartbeat timeout")

\* this.eventSource is never assigned, so only the two timers are cleared
closeConnection(s) ==
  LET s1 == IF s.retryTimeout # 0
            THEN [clearTimeout(s, s.retryTimeout) EXCEPT !.retryTimeout = 0]
            ELSE s
      s2 == IF s1.heartbeatTimeout # 0
            THEN [clearTimeout(s1, s1.heartbeatTimeout) EXCEPT !.heartbeatTimeout = 0]
            ELSE s1
  IN updateConnectionState(s2, "disconnected")

\* startStream up to its await of connectEventSource
startStream(s) ==
  updateConnectionState(
    [closeConnection(s) EXCEPT !.currentMessage = "", !.currentSources = <<>>,
                               !.currentCitations = <<>>, !.currentClaims = <<>>,
                               !.currentClaimsGroup = <<>>],
    "connecting")

(***************************************************************************)
(* ErrorRecoveryManager (services/error-recovery.ts)                       *)
(***************************************************************************)
MaxCalls == 2
MaxProbes == 1
MaxRecoveries == 6

DefaultCircuitBreakerThreshold == 5
DefaultCircuitBreakerTimeout == 60000
DefaultMaxDelay == 30000
DefaultBackoffMultiplier == 2

DEFAULT_RECOVERY_CONFIG ==
  [maxRetries |-> 5, initialDelay |-> 1000, maxDelay |-> DefaultMaxDelay,
   backoffMultiplier |-> DefaultBackoffMultiplier, jitterEnabled |-> TRUE,
   circuitBreakerThreshold |-> DefaultCircuitBreakerThreshold,
   circuitBreakerTimeout |-> DefaultCircuitBreakerTimeout,
   networkQualityCheckInterval |-> 30000, fallbackEnabled |-> TRUE]

SSEErrorType ==
  {"connection_failed", "connection_lost", "network_error", "timeout_error",
   "server_error", "auth_error", "parse_error", "max_retries_exceeded"}

NetworkQuality == {"excellent", "good", "fair", "poor", "offline"}

Rule(type, severity, retryable, strategy, maxRetries, baseDelay) ==
  [type |-> type, severity |-> severity, retryable |-> retryable, strategy |-> strategy,
   maxRetries |-> maxRetries, baseDelay |-> baseDelay]

ERROR_CLASSIFICATION_RULES ==
  [type \in SSEErrorType |->
    CASE type = "connection_failed" -> Rule(type, "high", TRUE, "exponential_backoff", 5, 2000)
      [] type = "connection_lost" -> Rule(type, "medium", TRUE, "exponential_backoff", 3, 1000)
      [] type = "network_error" -> Rule(type, "high", TRUE, "circuit_breaker", 3, 5000)
      [] type = "timeout_error" -> Rule(type, "medium", TRUE, "linear_backoff", 3, 2000)
      [] type = "server_error" -> Rule(type, "high", TRUE, "exponential_backoff", 2, 3000)
      [] type = "auth_error" -> Rule(type, "critical", FALSE, "none", 0, 0)
      [] type = "parse_error" -> Rule(type, "low", FALSE, "none", 0, 0)
      [] type = "max_retries_exceeded" -> Rule(type, "critical", FALSE, "fallback", 0, 0)]

\* networkMetrics before the first probe answers (null)
NoMetrics == [quality |-> "null", stability |-> <<0, 0>>]

\* no function was called yet
NoCalc ==
  [op |-> "none", error |-> "", attemptCount |-> 0, random |-> 0,
   classification |-> Rule("", "", FALSE, "", 0, 0), delay |-> 0]

\* the manager after construction; recoveries counts the invocations of the
\* recovery functions handed to attemptRecovery, trials those made since the
\* breaker became half_open, probes the answered health probes of the quality
\* monitor
NewManager ==
  [circuitBreakerState |-> "closed", failureCount |-> 0, lastFailureTime |-> 0,
   recoveryAttempts |-> <<>>, networkMetrics |-> NoMetrics, recoveries |-> 0,
   trials |-> 0, probes |-> 0]

Max(a, b) == IF a >= b THEN a ELSE b
Min(a, b) == IF a <= b THEN a ELSE b

RECURSIVE pow(_, _)
pow(b, n) == IF n <= 0 THEN 1 ELSE b * pow(b, n - 1)

quality(m) == m.networkMetrics.quality

\* a faulty classifyError that keeps maxRetries under poor quality
classifyErrorNoHalving(m, error) ==
  LET baseClassification == ERROR_CLASSIFICATION_RULES[error] IN
  IF quality(m) = "poor"
  THEN [baseClassification EXCEPT
          !.strategy = "linear_backoff",
          !.baseDelay = baseClassification.baseDelay * 2]
  ELSE IF quality(m) = "offline"
  THEN [baseClassification EXCEPT !.retryable = FALSE, !.strategy = "fallback"]
  ELSE baseClassification

classifyError(m, error) ==
  LET baseClassification == ERROR_CLASSIFICATION_RULES[error] IN
  IF quality(m) = "poor"
  THEN [baseClassification EXCEPT
          !.strategy = "linear_backoff",
          !.maxRetries = Max(1, baseClassification.maxRetries \div 2),
          !.baseDelay = baseClassification.baseDelay * 2]
  ELSE IF quality(m) = "offline"
  THEN [baseClassification EXCEPT !.retryable = FALSE, !.strategy = "fallback"]
  ELSE baseClassification

\* Math.random() is random / 1000 and the jitter delay * 0.1 * Math.random();
\* the largest jitter is drawn here, and a configuration without jitter gives
\* the delays of Math.random() = 0
Randoms == {999}

\* the delay of a strategy before jitter and before the maximum
strategyDelay(m, cfg, classification, attemptCount) ==
  CASE classification.strategy = "immediate_retry" -> 0
    [] classification.strategy = "linear_backoff" ->
         classification.baseDelay * attemptCount
    [] classification.strategy = "exponential_backoff" ->
         classification.baseDelay * pow(cfg.backoffMultiplier, attemptCount - 1)
    [] classification.strategy = "circuit_breaker" ->
         IF m.circuitBreakerState = "open"
         THEN cfg.circuitBreakerTimeout ELSE classification.baseDelay
    [] OTHER -> classification.baseDelay

\* a faulty calculateDelay that does not apply the maximum
calculateDelayNoClamp(m, cfg, classification, attemptCount, random) ==
  LET delay == strategyDelay(m, cfg, classification, attemptCount)
  IN IF cfg.jitterEnabled /\ delay > 0
     THEN delay + (delay * random) \div 10000 ELSE delay

\* a faulty calculateDelay that applies the maximum before the jitter
calculateDelayClampFirst(m, cfg, classification, attemptCount, random) ==
  LET delay == Min(strategyDelay(m, cfg, classification, attemptCount), cfg.maxDelay)
  IN IF cfg.jitterEnabled /\ delay > 0
     THEN delay + (delay * random) \div 10000 ELSE delay

calculateDelay(m, cfg, classification, attemptCount, random) ==
  LET delay == strategyDelay(m, cfg, classification, attemptCount)
      jittered ==
        IF cfg.jitterEnabled /\ delay > 0
        THEN delay + (delay * random) \div 10000 ELSE delay
  IN Min(jittered, cfg.maxDelay)

setCircuitBreakerState(m, state) ==
  IF m.circuitBreakerState # state
  THEN [m EXCEPT !.circuitBreakerState = state, !.trials = 0]
  ELSE m

\* a faulty handleMaxRetriesExceeded that opens the breaker without the time
handleMaxRetriesExceededNoStamp(m, t) == setCircuitBreakerState(m, "open")

handleMaxRetriesExceeded(m, t) ==
  [setCircuitBreakerState(m, "open") EXCEPT !.lastFailureTime = t]

\* a faulty incrementFailureCount that trips the breaker one failure late
incrementFailureCountLate(m, cfg, t) ==
  LET m1 == [m EXCEPT !.failureCount = @ + 1] IN
  IF m1.failureCount > cfg.circuitBreakerThreshold
  THEN [setCircuitBreakerState(m1, "open") EXCEPT !.lastFailureTime = t]
  ELSE m1

\* a faulty incrementFailureCount that never trips the breaker
incrementFailureCountNoTrip(m, cfg, t) == [m EXCEPT !.failureCount = @ + 1]

incrementFailureCount(m, cfg, t) ==
  LET m1 == [m EXCEPT !.failureCount = @ + 1] IN
  IF m1.failureCount >= cfg.circuitBreakerThreshold
  THEN [setCircuitBreakerState(m1, "open") EXCEPT !.lastFailureTime = t]
  ELSE m1

\* a faulty resetFailureCount that keeps the count
resetFailureCountKeeps(m) == m

resetFailureCount(m) == [m EXCEPT !.failureCount = 0]

\* a faulty reset that keeps the time of the last failure
resetKeepsTime(m) ==
  [m EXCEPT !.circuitBreakerState = "closed", !.failureCount = 0,
            !.recoveryAttempts = <<>>,
            !.trials = IF m.circuitBreakerState # "closed" THEN 0 ELSE @]

\* reset assigns the four fields; the network metrics stay as they are
reset(m) ==
  [m EXCEPT !.circuitBreakerState = "closed", !.failureCount = 0,
            !.lastFailureTime = 0, !.recoveryAttempts = <<>>,
            !.trials = IF m.circuitBreakerState # "closed" THEN 0 ELSE @]

calculateNetworkStability(m) ==
  IF Len(m.recoveryAttempts) = 0 THEN <<1, 1>>
  ELSE LET n == Len(m.recoveryAttempts)
           recentAttempts == SubSeq(m.recoveryAttempts, Max(1, n - 9), n)
       IN <<Len(SelectSeq(recentAttempts, LAMBDA a : a.success)), Len(recentAttempts)>>

recoveryFn(m) ==
  [m EXCEPT !.recoveries = @ + 1,
            !.trials = IF m.circuitBreakerState = "half_open" THEN @ + 1 ELSE @]

NoAttempt ==
  [attempt |-> 0, strategy |-> "none", delay |-> 0, timestamp |-> 0, success |-> FALSE]

\* an attemptRecovery call: its arguments, where it stands, and how it returned
NewCall(error) ==
  [error |-> error, attemptCount |-> 1, pc |-> "called", wake |-> 0,
   recoveryAttempt |-> NoAttempt, result |-> "pending", why |-> ""]

return(c, result, why) == [c EXCEPT !.pc = "returned", !.result = result, !.why = why]

\* a faulty attemptRecovery that does not look at the circuit breaker
attemptRecoveryNoBreaker(m, cfg, t, c, random) ==
  LET classification == classifyError(m, c.error) IN
  IF ~classification.retryable \/ c.attemptCount > classification.maxRetries
  THEN [erm |-> handleMaxRetriesExceeded(m, t), call |-> return(c, "false", "rejected")]
  ELSE
    LET m1 == IF m.circuitBreakerState = "open"
              THEN setCircuitBreakerState(m, "half_open") ELSE m
        delay == calculateDelay(m1, cfg, classification, c.attemptCount, random)
        recoveryAttempt ==
          [attempt |-> c.attemptCount, strategy |-> classification.strategy,
           delay |-> delay, timestamp |-> t, success |-> FALSE]
    IN IF delay > 0
       THEN [erm |-> m1,
             call |-> [c EXCEPT !.pc = "sleeping", !.wake = t + delay,
                                !.recoveryAttempt = recoveryAttempt]]
       ELSE [erm |-> recoveryFn(m1),
             call |-> [c EXCEPT !.pc = "recovering",
                                !.recoveryAttempt = recoveryAttempt]]

\* a faulty attemptRecovery that looks at the circuit breaker first
attemptRecoveryBreakerFirst(m, cfg, t, c, random) ==
  LET classification == classifyError(m, c.error) IN
  IF m.circuitBreakerState = "open"
     /\ t - m.lastFailureTime < cfg.circuitBreakerTimeout
  THEN [erm |-> m, call |-> return(c, "false", "suppressed")]
  ELSE IF ~classification.retryable \/ c.attemptCount > classification.maxRetries
  THEN [erm |-> handleMaxRetriesExceeded(m, t), call |-> return(c, "false", "rejected")]
  ELSE
    LET m1 == IF m.circuitBreakerState = "open"
              THEN setCircuitBreakerState(m, "half_open") ELSE m
        delay == calculateDelay(m1, cfg, classification, c.attemptCount, random)
        recoveryAttempt ==
          [attempt |-> c.attemptCount, strategy |-> classification.strategy,
           delay |-> delay, timestamp |-> t, success |-> FALSE]
    IN IF delay > 0
       THEN [erm |-> m1,
             call |-> [c EXCEPT !.pc = "sleeping", !.wake = t + delay,
                                !.recoveryAttempt = recoveryAttempt]]
       ELSE [erm |-> recoveryFn(m1),
             call |-> [c EXCEPT !.pc = "recovering",
                                !.recoveryAttempt = recoveryAttempt]]

\* a faulty attemptRecovery that does not compare attemptCount with maxRetries
attemptRecoveryNoLimit(m, cfg, t, c, random) ==
  LET classification == classifyError(m, c.error) IN
  IF ~classification.retryable
  THEN [erm |-> handleMaxRetriesExceeded(m, t), call |-> return(c, "false", "rejected")]
  ELSE IF m.circuitBreakerState = "open"
          /\ t - m.lastFailureTime < cfg.circuitBreakerTimeout
  THEN [erm |-> m, call |-> return(c, "false", "suppressed")]
  ELSE
    LET m1 == IF m.circuitBreakerState = "open"
              THEN setCircuitBreakerState(m, "half_open") ELSE m
        delay == calculateDelay(m1, cfg, classification, c.attemptCount, random)
        recoveryAttempt ==
          [attempt |-> c.attemptCount, strategy |-> classification.strategy,
           delay |-> delay, timestamp |-> t, success |-> FALSE]
    IN IF delay > 0
       THEN [erm |-> m1,
             call |-> [c EXCEPT !.pc = "sleeping", !.wake = t + delay,
                                !.recoveryAttempt = recoveryAttempt]]
       ELSE [erm |-> recoveryFn(m1),
             call |-> [c EXCEPT !.pc = "recovering",
                                !.recoveryAttempt = recoveryAttempt]]

\* attemptRecovery from its entry to its first await, at time t
attemptRecovery(m, cfg, t, c, random) ==
  LET classification == classifyError(m, c.error) IN
  IF ~classification.retryable \/ c.attemptCount > classification.maxRetries
  THEN [erm |-> handleMaxRetriesExceeded(m, t), call |-> return(c, "false", "rejected")]
  ELSE IF m.circuitBreakerState = "open"
          /\ t - m.lastFailureTime < cfg.circuitBreakerTimeout
  THEN [erm |-> m, call |-> return(c, "false", "suppressed")]
  ELSE
    LET m1 == IF m.circuitBreakerState = "open"
              THEN setCircuitBreakerState(m, "half_open") ELSE m
        delay == calculateDelay(m1, cfg, classification, c.attemptCount, random)
        recoveryAttempt ==
          [attempt |-> c.attemptCount, strategy |-> classification.strategy,
           delay |-> delay, timestamp |-> t, success |-> FALSE]
    IN IF delay > 0
       THEN [erm |-> m1,
             call |-> [c EXCEPT !.pc = "sleeping", !.wake = t + delay,
                                !.recoveryAttempt = recoveryAttempt]]
       ELSE [erm |-> recoveryFn(m1),
             call |-> [c EXCEPT !.pc = "recovering",
                                !.recoveryAttempt = recoveryAttempt]]

(***************************************************************************)
(* Spec: the service with the calls of its user (startStream,              *)
(* closeConnection), the responses of the server and the timers.  A read   *)
(* loop is followed line by line: a chunk boundary may fall after any      *)
(* line, so that is where the other callbacks can run.  svc.calls and      *)
(* svc.dispatched hold what the current callback has invoked.              *)
(***************************************************************************)
DataLine(txt) == DataPrefix \o Text(txt)

\* the lines the server sends in Spec
SpecLines ==
  << DataLine(TxtTokenHel), DataLine(TxtTokenLo), DataLine(TxtCitation),
     DataLine(TxtDone), DataLine(TxtErrorRetry), DataLine(TxtHeartbeat),
     DataLine(TxtMalformed) >>

\* the configurations of the service
Configs == {[DEFAULT_SSE_CONFIG EXCEPT !.enableReconnect = e] : e \in BOOLEAN}

\* no response is being read
NoRead == [phase |-> "idle", buffer |-> <<>>, pending |-> <<>>]

\* the configurations of Spec: maxRetries as it is by default, or 2
RetryConfigs ==
  {[c EXCEPT !.maxRetries = r] : c \in Configs, r \in {2, DefaultMaxRetries}}

Init ==
  /\ config \in RetryConfigs
  /\ svc = NewService
  /\ streams = <<>>
  /\ nlines = 0
  /\ closed = FALSE
  /\ body = <<>>
  /\ pos = 0
  /\ rd = NoRead
  /\ rcfg = DEFAULT_RECOVERY_CONFIG
  /\ erm = NewManager
  /\ tasks = <<>>
  /\ now = 1
  /\ calc = NoCalc

\* the service as a callback finds it
Turn(s) == [s EXCEPT !.calls = <<>>, !.dispatched = <<>>, !.notified = <<>>]

\* the text of the token events among the invocations `calls`
RECURSIVE TokenText(_)
TokenText(calls) ==
  IF calls = <<>> THEN ""
  ELSE (IF Head(calls).handler = "onToken" THEN Head(calls).event.content ELSE "")
         \o TokenText(Tail(calls))

\* the user calls startStream: it runs to its await of the response
StartStream ==
  /\ Len(streams) < MaxStreams
  /\ svc' = startStream(Turn(svc))
  /\ streams' = Append(streams, [phase |-> "fetching", own |-> ""])
  /\ closed' = FALSE
  /\ UNCHANGED <<config, nlines, body, pos, rd, rcfg, erm, tasks, now, calc>>

\* fetch resolves with an ok response: processStream runs to its first read
FetchOk(k) ==
  /\ streams[k].phase = "fetching"
  /\ svc' = updateConnectionState(Turn(svc), "connected")
  /\ streams' = [streams EXCEPT ![k].phase = "reading"]
  /\ UNCHANGED <<config, nlines, closed, body, pos, rd, rcfg, erm, tasks, now, calc>>

\* fetch rejects, or the response is not ok or has no body: startStream's catch
FetchFail(k) ==
  /\ streams[k].phase = "fetching"
  /\ svc' = handleConnectionError(Turn(svc), createSSEError("connection_failed"),
                                  "Connection failed")
  /\ streams' = [streams EXCEPT ![k].phase = "failed"]
  /\ UNCHANGED <<config, nlines, closed, body, pos, rd, rcfg, erm, tasks, now, calc>>

\* the read loop of stream k processes its next line
ReadLine(k, l) ==
  /\ streams[k].phase = "reading"
  /\ nlines < MaxLines
  /\ svc' = processSSELine(Turn(svc), SpecLines[l])
  /\ streams' = [streams EXCEPT ![k].own = @ \o TokenText(svc'.calls)]
  /\ nlines' = nlines + 1
  /\ UNCHANGED <<config, closed, body, pos, rd, rcfg, erm, tasks, now, calc>>

\* reader.read() reports the end of the body
ReadDone(k) ==
  /\ streams[k].phase = "reading"
  /\ svc' = updateConnectionState(Turn(svc), "disconnected")
  /\ streams' = [streams EXCEPT ![k].phase = "done"]
  /\ UNCHANGED <<config, nlines, closed, body, pos, rd, rcfg, erm, tasks, now, calc>>

\* reader.read() rejects: processStream's catch
ReadError(k) ==
  /\ streams[k].phase = "reading"
  /\ svc' = handleConnectionError(Turn(svc), createSSEError("network_error"),
                                  "Stream processing failed")
  /\ streams' = [streams EXCEPT ![k].phase = "failed"]
  /\ UNCHANGED <<config, nlines, closed, body, pos, rd, rcfg, erm, tasks, now, calc>>

\* a pending timer fires
TimerFire(t) ==
  /\ svc' = timerCallback([Turn(svc) EXCEPT !.timers = @ \ {t}], t)
  /\ UNCHANGED <<config, streams, nlines, closed, body, pos, rd, rcfg, erm, tasks, now, calc>>

\* the user calls closeConnection
CloseConnection ==
  /\ ~closed
  /\ svc' = closeConnection(Turn(svc))
  /\ closed' = TRUE
  /\ UNCHANGED <<config, streams, nlines, body, pos, rd, rcfg, erm, tasks, now, calc>>

Next ==
  \/ StartStream
  \/ CloseConnection
  \/ \E k \in 1..Len(streams) : FetchOk(k)
  \/ \E k \in 1..Len(streams) : FetchFail(k)
  \/ \E k \in 1..Len(streams) : \E l \in 1..Len(SpecLines) : ReadLine(k, l)
  \/ \E k \in 1..Len(streams) : ReadDone(k)
  \/ \E k \in 1..Len(streams) : ReadError(k)
  \/ \E t \in svc.timers : TimerFire(t)

Spec == Init /\ [][Next]_vars

(***************************************************************************)
(* SpecParse: one stream on a new service, read in chunks of bytes.  Every *)
(* way of cutting the body into chunks is a behaviour.  svc.calls and      *)
(* svc.dispatched hold everything invoked since the start.                 *)
(***************************************************************************)
NL == <<"\n">>

\* an event as the server frames it: the data line and a blank line
Frame(txt) == DataPrefix \o txt \o NL \o NL

\* the pieces the bodies are made of: lines with their terminators (the first
\* GeneratedPieces of them make the generated bodies), framed events, and a
\* line cut off before its terminator
Pieces ==
  << DataPrefix \o TxtTokenHel \o NL,
     DataPrefix \o TxtTokenE9 \o <<"\r", "\n">>,
     DataPrefix \o TxtDone \o NL,
     DataPrefix \o TxtNull \o NL,
     DataPrefix \o TxtMalformed \o NL,
     DataPrefix \o TxtDoneSignal \o NL,
     <<":", " ", "k">> \o NL,
     <<"i", "d", ":", "1">> \o NL,
     NL,
     DataPrefix \o TxtTokenLo,
     Frame(TxtStart), Frame(TxtTokenHel), Frame(TxtTokenLo), Frame(TxtTokenWorld),
     Frame(TxtDone), Frame(TxtSources), Frame(TxtCitation), Frame(TxtCitationNoId),
     Frame(TxtHeartbeat), Frame(TxtClaims), Frame(TxtClaim), Frame(TxtUnknown),
     Frame(TxtNoType), Frame(TxtError), Frame(TxtErrorRetry) >>

GeneratedPieces == 1..9
CutOffPiece == <<10>>

RECURSIVE BodiesOf(_)
BodiesOf(n) ==
  IF n = 0 THEN {<<>>}
  ELSE BodiesOf(n - 1) \cup {Append(b, w) : b \in BodiesOf(n - 1), w \in GeneratedPieces}

\* start, the tokens "Hel", "lo ", "world", done
HelloBody == <<11, 12, 13, 14, 15>>

\* events of the other types, and some the service does not know
EventsBody == <<16, 17, 18, 19, 24>>
MoreEventsBody == <<20, 21, 22, 23, 25, 15, 12>>

\* a heartbeat, then done
WatchdogBody == <<19, 15>>

\* a body is written as the sequence of its pieces
ParseBodies ==
  BodiesOf(MaxParseLines) \cup {b \o CutOffPiece : b \in BodiesOf(MaxParseLines)}
    \cup {HelloBody, EventsBody, MoreEventsBody, WatchdogBody}

RECURSIVE Bytes(_)
Bytes(b) == IF b = <<>> THEN <<>> ELSE Pieces[Head(b)] \o Bytes(Tail(b))

ParseInit ==
  /\ config = DEFAULT_SSE_CONFIG
  /\ svc = NewService
  /\ streams = <<>>
  /\ nlines = 0
  /\ closed = FALSE
  /\ body \in ParseBodies
  /\ pos = 0
  /\ rd = NoRead
  /\ rcfg = DEFAULT_RECOVERY_CONFIG
  /\ erm = NewManager
  /\ tasks = <<>>
  /\ now = 1
  /\ calc = NoCalc

\* a faulty processLines that takes the lines of a chunk last to first
RECURSIVE processLinesReversed(_, _)
processLinesReversed(s, lines) ==
  IF lines = <<>> THEN s
  ELSE processSSELine(processLinesReversed(s, Tail(lines)), Head(lines))

RECURSIVE processLines(_, _)
processLines(s, lines) ==
  IF lines = <<>> THEN s
  ELSE processLines(processSSELine(s, Head(lines)), Tail(lines))

\* a faulty processChunk that forgets the incomplete line at the end of a chunk
processChunkNoBuffer(s, r, value) ==
  LET d == decode(r.pending, value)
      lines == split(r.buffer \o d.text)
  IN [svc |-> processLines(s, SubSeq(lines, 1, Len(lines) - 1)),
      rd |-> [r EXCEPT !.buffer = <<>>, !.pending = d.pending]]

\* one turn of processStream's loop for the chunk `value`: the service and the
\* locals afterwards
processChunk(s, r, value) ==
  LET d == decode(r.pending, value)
      lines == split(r.buffer \o d.text)
  IN [svc |-> processLines(s, SubSeq(lines, 1, Len(lines) - 1)),
      rd |-> [r EXCEPT !.buffer = lines[Len(lines)], !.pending = d.pending]]

PStartStream ==
  /\ rd.phase = "idle"
  /\ svc' = startStream(svc)
  /\ rd' = [rd EXCEPT !.phase = "fetching"]
  /\ UNCHANGED <<config, streams, nlines, closed, body, pos, rcfg, erm, tasks, now, calc>>

\* fetch resolves: processStream runs to its first read
PConnect ==
  /\ rd.phase = "fetching"
  /\ svc' = updateConnectionState(svc, "connected")
  /\ rd' = [rd EXCEPT !.phase = "reading"]
  /\ UNCHANGED <<config, streams, nlines, closed, body, pos, rcfg, erm, tasks, now, calc>>

\* reader.read() returns the next n bytes
PRead(n) ==
  /\ rd.phase = "reading"
  /\ LET after == processChunk(svc, rd, SubSeq(Bytes(body), pos + 1, pos + n))
     IN svc' = after.svc /\ rd' = after.rd
  /\ pos' = pos + n
  /\ UNCHANGED <<config, streams, nlines, closed, body, rcfg, erm, tasks, now, calc>>

\* reader.read() reports the end of the body
PEnd ==
  /\ rd.phase = "reading"
  /\ pos = Len(Bytes(body))
  /\ svc' = updateConnectionState(svc, "disconnected")
  /\ rd' = [rd EXCEPT !.phase = "ended"]
  /\ UNCHANGED <<config, streams, nlines, closed, body, pos, rcfg, erm, tasks, now, calc>>

PTimerFire(t) ==
  /\ svc' = timerCallback([svc EXCEPT !.timers = @ \ {t}], t)
  /\ UNCHANGED <<config, streams, nlines, closed, body, pos, rd, rcfg, erm, tasks, now, calc>>

ParseNext ==
  \/ PStartStream
  \/ PConnect
  \/ \E n \in 1..(Len(Bytes(body)) - pos) : PRead(n)
  \/ PEnd
  \/ \E t \in svc.timers : PTimerFire(t)

SpecParse == ParseInit /\ [][ParseNext]_vars

(***************************************************************************)
(* SpecRecovery: attemptRecovery calls against one manager                 *)
(***************************************************************************)
RecoveryConfigs ==
  {[DEFAULT_RECOVERY_CONFIG EXCEPT !.jitterEnabled = j] : j \in BOOLEAN}

\* the errors the callers hand to attemptRecovery
CallErrors == {"connection_failed", "network_error", "timeout_error", "auth_error"}

\* the answers of the health probe
ProbeResults == {"good", "poor", "offline"}

RecoveryInit ==
  /\ config = DEFAULT_SSE_CONFIG
  /\ svc = NewService
  /\ streams = <<>>
  /\ nlines = 0
  /\ closed = FALSE
  /\ body = <<>>
  /\ pos = 0
  /\ rd = NoRead
  /\ rcfg \in RecoveryConfigs
  /\ erm = NewManager
  /\ tasks = <<>>
  /\ now = 1
  /\ calc = NoCalc

service == <<config, svc, streams, nlines, closed, body, pos, rd>>

\* a call that failed is between its catch block and the recursive call
Retrying == \E i \in DOMAIN tasks : tasks[i].pc = "retry"

Enter(i, c, random) ==
  LET r == attemptRecovery(erm, rcfg, now, c, random) IN
  /\ erm' = r.erm
  /\ tasks' = IF i > Len(tasks) THEN Append(tasks, r.call) ELSE [tasks EXCEPT ![i] = r.call]

AttemptRecovery(error) ==
  /\ ~Retrying
  /\ Len(tasks) < MaxCalls
  /\ \E random \in Randoms : Enter(Len(tasks) + 1, NewCall(error), random)
  /\ UNCHANGED <<service, calc, rcfg, now>>

Retry(i) ==
  /\ tasks[i].pc = "retry"
  /\ \E random \in Randoms :
       Enter(i, [tasks[i] EXCEPT !.attemptCount = @ + 1], random)
  /\ UNCHANGED <<service, calc, rcfg, now>>

Wake(i) ==
  /\ ~Retrying
  /\ tasks[i].pc = "sleeping"
  /\ now >= tasks[i].wake
  /\ erm.recoveries < MaxRecoveries
  /\ erm' = recoveryFn(erm)
  /\ tasks' = [tasks EXCEPT ![i].pc = "recovering"]
  /\ UNCHANGED <<service, calc, rcfg, now>>

RecoveryResolves(i) ==
  /\ ~Retrying
  /\ tasks[i].pc = "recovering"
  /\ LET recoveryAttempt == [tasks[i].recoveryAttempt EXCEPT !.success = TRUE]
         m1 == resetFailureCount(
                 [erm EXCEPT !.recoveryAttempts = Append(@, recoveryAttempt)])
     IN /\ erm' = IF m1.circuitBreakerState = "half_open"
                  THEN setCircuitBreakerState(m1, "closed") ELSE m1
        /\ tasks' = [tasks EXCEPT ![i] =
                       return([@ EXCEPT !.recoveryAttempt = recoveryAttempt],
                              "true", "recovered")]
  /\ UNCHANGED <<service, calc, rcfg, now>>

RecoveryRejects(i) ==
  /\ ~Retrying
  /\ tasks[i].pc = "recovering"
  /\ erm' = incrementFailureCount(
              [erm EXCEPT !.recoveryAttempts = Append(@, tasks[i].recoveryAttempt)],
              rcfg, now)
  /\ tasks' = [tasks EXCEPT ![i].pc = "retry"]
  /\ UNCHANGED <<service, calc, rcfg, now>>

checkNetworkQuality(q) ==
  /\ ~Retrying
  /\ erm.probes < MaxProbes
  /\ erm' = [erm EXCEPT !.probes = @ + 1, !.networkMetrics =
               [quality |-> q,
                stability |-> IF q = "offline" THEN <<0, 1>>
                              ELSE calculateNetworkStability(erm)]]
  /\ UNCHANGED <<service, calc, rcfg, tasks, now>>

\* the instants at which a sleep is over, and those at which something
\* becomes due
Wakes == {tasks[i].wake : i \in {j \in DOMAIN tasks : tasks[j].pc = "sleeping"}}

Deadlines ==
  Wakes \cup (IF erm.circuitBreakerState = "open"
              THEN {erm.lastFailureTime + rcfg.circuitBreakerTimeout} ELSE {})

\* time passes up to the next instant at which something becomes due; a
\* sleep that is over resolves first (timers fire in the order of their
\* deadlines), while a recovery function takes as long as it takes
Advance ==
  /\ ~Retrying
  /\ \A w \in Wakes : w > now
  /\ \E t \in Deadlines :
       /\ t > now
       /\ \A d \in Deadlines : d > now => t <= d
       /\ now' = t
  /\ UNCHANGED <<service, calc, rcfg, erm, tasks>>

RecoveryNext ==
  \/ \E error \in CallErrors : AttemptRecovery(error)
  \/ \E i \in DOMAIN tasks : Retry(i)
  \/ \E i \in DOMAIN tasks : Wake(i)
  \/ \E i \in DOMAIN tasks : RecoveryResolves(i)
  \/ \E i \in DOMAIN tasks : RecoveryRejects(i)
  \/ \E q \in ProbeResults : checkNetworkQuality(q)
  \/ Advance

SpecRecovery == RecoveryInit /\ [][RecoveryNext]_vars

(***************************************************************************)
(* SpecCalc: one call of classifyError, calculateDelay, attemptRecovery    *)
(* (to its first await) or handleConnectionError, on a manager and a       *)
(* service in a state drawn by CalcInit, with arguments drawn by the call. *)
(***************************************************************************)
MaxAttempt == 6

\* the configurations of the manager in SpecCalc
CalcConfigs ==
  {[DEFAULT_RECOVERY_CONFIG EXCEPT !.maxRetries = r, !.maxDelay = d,
                                   !.backoffMultiplier = b, !.jitterEnabled = j] :
     r \in {0, 5}, d \in {2500, DefaultMaxDelay}, b \in {1, 2, 3}, j \in BOOLEAN}

\* the time of SpecCalc: one circuitBreakerTimeout after time 1
CalcNow == 1 + DefaultCircuitBreakerTimeout

\* managers as attemptRecovery calls and probes leave them: the breaker
\* closed, opened at time 1 or just now, or half_open after it was opened at
\* time 1, under every network quality; and the breaker closed after three
\* failures, or opened by the fifth failure one millisecond ago
CalcManagers ==
  {[NewManager EXCEPT !.circuitBreakerState = b[1], !.lastFailureTime = b[2],
                      !.failureCount = b[3], !.networkMetrics = n] :
     b \in {<<"closed", 0, 0>>, <<"open", 1, 0>>, <<"open", CalcNow, 0>>,
            <<"half_open", 1, 0>>, <<"closed", CalcNow - 1, 3>>,
            <<"open", CalcNow - 1, DefaultCircuitBreakerThreshold>>},
     n \in {NoMetrics} \cup {[quality |-> q, stability |-> <<1, 1>>] : q \in NetworkQuality}}

\* Math.random() of 0, 0.5 and 0.999
CalcRandoms == {0, 500, 999}

CalcInit ==
  /\ config \in Configs
  /\ svc = NewService
  /\ streams = <<>>
  /\ nlines = 0
  /\ closed = FALSE
  /\ body = <<>>
  /\ pos = 0
  /\ rd = NoRead
  /\ rcfg \in CalcConfigs
  /\ erm \in CalcManagers
  /\ tasks = <<>>
  /\ now = CalcNow
  /\ calc = NoCalc

CallClassifyError(error) ==
  /\ calc.op = "none"
  /\ calc' = [NoCalc EXCEPT !.op = "classifyError", !.error = error,
                            !.classification = classifyError(erm, error)]
  /\ UNCHANGED <<service, rcfg, erm, tasks, now>>

\* calculateDelay is public: besides the classifications classifyError
\* returns, one with strategy immediate_retry is handed to it
CallCalculateDelay(error, immediate, attemptCount, random) ==
  /\ calc.op = "none"
  /\ LET c == classifyError(erm, error)
         classification == IF immediate THEN [c EXCEPT !.strategy = "immediate_retry"] ELSE c
     IN calc' = [NoCalc EXCEPT
                   !.op = "calculateDelay", !.error = error,
                   !.attemptCount = attemptCount, !.random = random,
                   !.classification = classification,
                   !.delay = calculateDelay(erm, rcfg, classification, attemptCount, random)]
  /\ UNCHANGED <<service, rcfg, erm, tasks, now>>

CallAttemptRecovery(error, attemptCount, random) ==
  /\ calc.op = "none"
  /\ Enter(1, [NewCall(error) EXCEPT !.attemptCount = attemptCount], random)
  /\ calc' = [NoCalc EXCEPT !.op = "attemptRecovery", !.error = error,
                            !.attemptCount = attemptCount, !.random = random,
                            !.classification = classifyError(erm, error)]
  /\ UNCHANGED <<service, rcfg, now>>

CallHandleConnectionError(type) ==
  /\ calc.op = "none"
  /\ svc' = handleConnectionError(svc, createSSEError(type), "Connection failed")
  /\ calc' = [NoCalc EXCEPT !.op = "handleConnectionError", !.error = type]
  /\ UNCHANGED <<config, streams, nlines, closed, body, pos, rd, rcfg, erm, tasks, now>>

CalcNext ==
  \/ \E error \in SSEErrorType : CallClassifyError(error)
  \/ \E error \in SSEErrorType, immediate \in BOOLEAN,
        attemptCount \in 1..MaxAttempt, random \in CalcRandoms :
       CallCalculateDelay(error, immediate, attemptCount, random)
  \/ \E error \in SSEErrorType, attemptCount \in 1..MaxAttempt, random \in CalcRandoms :
       CallAttemptRecovery(error, attemptCount, random)
  \/ \E type \in SSEErrorType : CallHandleConnectionError(type)

SpecCalc == CalcInit /\ [][CalcNext]_vars

(***************************************************************************)
(* SpecAttempt: one attemptRecovery call, from its entry to its return,    *)
(* on a manager whose breaker is closed, open or half_open, with the       *)
(* quality monitor running.  Timers fire, the recursive call follows the   *)
(* catch block, and the recovery function settles.                         *)
(***************************************************************************)
\* managers as earlier calls leave them: never used, opened at time 1 after
\* three failures, opened just now, half_open after the timeout
AttemptManagers ==
  {[NewManager EXCEPT !.circuitBreakerState = b[1], !.lastFailureTime = b[2],
                      !.failureCount = b[3]] :
     b \in {<<"closed", 0, 0>>, <<"open", 1, 3>>, <<"open", CalcNow, 0>>,
            <<"half_open", 1, 3>>}}

AttemptInit ==
  /\ config = DEFAULT_SSE_CONFIG
  /\ svc = NewService
  /\ streams = <<>>
  /\ nlines = 0
  /\ closed = FALSE
  /\ body = <<>>
  /\ pos = 0
  /\ rd = NoRead
  /\ rcfg \in RecoveryConfigs
  /\ erm \in AttemptManagers
  /\ tasks = <<>>
  /\ now = CalcNow
  /\ calc = NoCalc

\* the one call of the specification
AttemptRecoveryAlone(error) ==
  /\ tasks = <<>>
  /\ AttemptRecovery(error)

AttemptNext ==
  \/ \E error \in SSEErrorType : AttemptRecoveryAlone(error)
  \/ \E i \in DOMAIN tasks : Retry(i)
  \/ \E i \in DOMAIN tasks : Wake(i)
  \/ \E i \in DOMAIN tasks : RecoveryResolves(i)
  \/ \E i \in DOMAIN tasks : RecoveryRejects(i)
  \/ \E q \in ProbeResults : checkNetworkQuality(q)
  \/ Advance

\* a due timer fires and time passes (setTimeout); the recursive call is the
\* next statement of the catch block; the promise of the recovery function
\* settles
AttemptFairness ==
  /\ WF_vars(Advance)
  /\ WF_vars(\E i \in DOMAIN tasks : Wake(i))
  /\ WF_vars(\E i \in DOMAIN tasks : Retry(i))
  /\ WF_vars(\E i \in DOMAIN tasks : RecoveryResolves(i) \/ RecoveryRejects(i))

SpecAttempt == AttemptInit /\ [][AttemptNext]_vars /\ AttemptFairness

(***************************************************************************)
(* SpecTimed: one stream of the service with the clock.  A timer fires at  *)
(* the instant it is due; the server answers, sends lines and ends the     *)
(* body when it chooses.  streams[1].last is the time of the connection or *)
(* of the last event observed since, and streams[1].steady says that no    *)
(* 2 * heartbeatInterval have passed without an event so far.              *)
(***************************************************************************)
MaxTicks == 4

\* the lines the server sends in SpecTimed
TimedLines ==
  << DataLine(TxtTokenHel), DataLine(TxtHeartbeat), DataLine(TxtErrorRetry),
     DataLine(TxtError), DataLine(TxtDone) >>

\* the clock is looked at every heartbeatInterval, and when a timer is due
Step == config.heartbeatInterval

TimedInit ==
  /\ config \in Configs
  /\ svc = NewService
  /\ streams = <<>>
  /\ nlines = 0
  /\ closed = FALSE
  /\ body = <<>>
  /\ pos = 0
  /\ rd = NoRead
  /\ rcfg = DEFAULT_RECOVERY_CONFIG
  /\ erm = NewManager
  /\ tasks = <<>>
  /\ now = 1
  /\ calc = NoCalc

\* the user calls startStream, once
TStartStream ==
  /\ streams = <<>>
  /\ svc' = startStream(Turn(svc))
  /\ streams' = <<[phase |-> "fetching", own |-> "", last |-> now, steady |-> TRUE]>>
  /\ closed' = FALSE
  /\ UNCHANGED <<config, nlines, body, pos, rd, rcfg, erm, tasks, now, calc>>

TFetchOk ==
  /\ streams # <<>> /\ streams[1].phase = "fetching"
  /\ svc' = updateConnectionState(Turn(svc), "connected")
  /\ streams' = [streams EXCEPT ![1].phase = "reading", ![1].last = now]
  /\ UNCHANGED <<config, nlines, closed, body, pos, rd, rcfg, erm, tasks, now, calc>>

TFetchFail ==
  /\ streams # <<>> /\ streams[1].phase = "fetching"
  /\ svc' = handleConnectionError(Turn(svc), createSSEError("connection_failed"),
                                  "Connection failed")
  /\ streams' = [streams EXCEPT ![1].phase = "failed"]
  /\ UNCHANGED <<config, nlines, closed, body, pos, rd, rcfg, erm, tasks, now, calc>>

\* the next line of the body arrives now; every line of TimedLines is an event
TReadLine(l) ==
  /\ streams # <<>> /\ streams[1].phase = "reading"
  /\ nlines < MaxLines
  /\ svc' = processSSELine(Turn(svc), TimedLines[l])
  /\ streams' = [streams EXCEPT ![1].own = @ \o TokenText(svc'.calls), ![1].last = now]
  /\ nlines' = nlines + 1
  /\ UNCHANGED <<config, closed, body, pos, rd, rcfg, erm, tasks, now, calc>>

TReadDone ==
  /\ streams # <<>> /\ streams[1].phase = "reading"
  /\ svc' = updateConnectionState(Turn(svc), "disconnected")
  /\ streams' = [streams EXCEPT ![1].phase = "done"]
  /\ UNCHANGED <<config, nlines, closed, body, pos, rd, rcfg, erm, tasks, now, calc>>

TReadError ==
  /\ streams # <<>> /\ streams[1].phase = "reading"
  /\ svc' = handleConnectionError(Turn(svc), createSSEError("network_error"),
                                  "Stream processing failed")
  /\ streams' = [streams EXCEPT ![1].phase = "failed"]
  /\ UNCHANGED <<config, nlines, closed, body, pos, rd, rcfg, erm, tasks, now, calc>>

\* a timer that is due fires
TTimerFire(t) ==
  /\ t.due <= now
  /\ TimerFire(t)

\* the stream is being read
Reading == streams # <<>> /\ streams[1].phase = "reading"

\* time passes, to the next instant a timer is due or by Step, while a
\* timer or an answer of the server is pending
Tick ==
  /\ now < 1 + MaxTicks * Step
  /\ \A t \in svc.timers : t.due > now
  /\ svc.timers # {} \/ (streams # <<>> /\ streams[1].phase \in {"fetching", "reading"})
  /\ LET dues == {t.due : t \in svc.timers} \cup {now + Step}
     IN now' = CHOOSE d \in dues : \A e \in dues : d <= e
  /\ streams' = IF Reading
                THEN [streams EXCEPT ![1].steady =
                        @ /\ now' - streams[1].last < 2 * config.heartbeatInterval]
                ELSE streams
  /\ UNCHANGED <<config, svc, nlines, closed, body, pos, rd, rcfg, erm, tasks, calc>>

TimedNext ==
  \/ TStartStream
  \/ CloseConnection
  \/ TFetchOk
  \/ TFetchFail
  \/ \E l \in 1..Len(TimedLines) : TReadLine(l)
  \/ TReadDone
  \/ TReadError
  \/ \E t \in svc.timers : TTimerFire(t)
  \/ Tick

SpecTimed == TimedInit /\ [][TimedNext]_vars

\* timers fire and the clock goes on; the fetch settles and the body ends or
\* fails; the user need not do anything
TimedFairness ==
  /\ WF_vars(Tick)
  /\ WF_vars(\E t \in svc.timers : TTimerFire(t))
  /\ WF_vars(TFetchOk \/ TFetchFail)
  /\ WF_vars(TReadDone \/ TReadError)

SpecTimedFair == SpecTimed /\ TimedFairness

(***************************************************************************)
(* SpecReset: SpecAttempt's one call on one manager, with reset() called   *)
(* at any time, also while the call is waiting.                            *)
(***************************************************************************)
\* the user calls reset(); calc records that it was called
Reset ==
  /\ erm' = reset(erm)
  /\ calc' = [NoCalc EXCEPT !.op = "reset"]
  /\ UNCHANGED <<service, rcfg, tasks, now>>

ResetNext ==
  \/ \E error \in SSEErrorType : AttemptRecoveryAlone(error)
  \/ \E i \in DOMAIN tasks : Retry(i)
  \/ \E i \in DOMAIN tasks : Wake(i)
  \/ \E i \in DOMAIN tasks : RecoveryResolves(i)
  \/ \E i \in DOMAIN tasks : RecoveryRejects(i)
  \/ \E q \in ProbeResults : checkNetworkQuality(q)
  \/ Advance
  \/ Reset

SpecReset == AttemptInit /\ [][ResetNext]_vars

(***************************************************************************)
(* Properties of the stream parser, checked in SpecParse.                  *)
(***************************************************************************)
IsPrefix(a, b) == Len(a) <= Len(b) /\ a = SubSeq(b, 1, Len(a))

\* the service when processStream starts to read
ConnectedService == updateConnectionState(startStream(NewService), "connected")

\* the payloads dispatched when the whole body arrives as one chunk
OneChunkDispatched ==
  processChunk(ConnectedService, NoRead, Bytes(body)).svc.dispatched

\* C1: however the bytes of the body are cut into chunks, also inside a line
\* or inside a multi-byte character, the payloads handed to handleSSEEvent
\* are at every moment a prefix of, and at the end of the body exactly, the
\* payloads dispatched when the whole body arrives as one chunk.
C1_ChunkingInvariant ==
  /\ rd.phase \in {"reading", "ended"} => IsPrefix(svc.dispatched, OneChunkDispatched)
  /\ rd.phase = "ended" => svc.dispatched = OneChunkDispatched

\* a chunk has ended inside a line and inside a multi-byte character after
\* payloads were dispatched, and more are to come
C1_Witness ==
  /\ rd.phase = "reading"
  /\ rd.pending # <<>>
  /\ rd.buffer # <<>>
  /\ svc.dispatched # <<>>
  /\ Len(svc.dispatched) < Len(OneChunkDispatched)

\* the handler each piece of a body stands for, as the server meant it:
\* "" for a piece that is no event with a handler (null, malformed JSON,
\* [DONE], a comment, another field, a blank line, a line cut off, a
\* heartbeat, an unknown type, no type)
PieceHandler ==
  << "onToken", "onToken", "onDone", "", "", "", "", "", "", "",
     "onStart", "onToken", "onToken", "onToken", "onDone", "onSources",
     "onCitation", "onCitation", "", "onClaims", "onClaim", "", "",
     "onError", "onError" >>

RECURSIVE HandlersOf(_)
HandlersOf(b) ==
  IF b = <<>> THEN <<>>
  ELSE (IF PieceHandler[Head(b)] = "" THEN <<>> ELSE <<PieceHandler[Head(b)]>>)
         \o HandlersOf(Tail(b))

\* the handlers handleSSEEvent has invoked, in the order of the invocations
EventCalls == SelectSeq(svc.calls, LAMBDA c : c.via = "event")
InvokedHandlers == [i \in 1..Len(EventCalls) |-> EventCalls[i].handler]

\* C3: the handlers invoked for the events of a stream are, in this order
\* and once each, the handlers of the recognised events of the body: at
\* every moment a prefix of them, and all of them when the body has ended.
\* (The onError calls for malformed lines are not invocations for events.)
C3_HandlerOrder ==
  /\ rd.phase \in {"reading", "ended"} => IsPrefix(InvokedHandlers, HandlersOf(body))
  /\ rd.phase = "ended" => InvokedHandlers = HandlersOf(body)

\* the body sources, citation, citation without id, heartbeat, error has
\* been handled to its end
C3_Witness ==
  /\ rd.phase = "ended"
  /\ body = EventsBody
  /\ InvokedHandlers = <<"onSources", "onCitation", "onCitation", "onError">>

\* C4: when the stream start, token "Hel", token "lo ", token "world", done
\* has ended, the message is "Hello world", onDone was invoked once and the
\* connection state is disconnected.
C4_HelloWorld ==
  (body = HelloBody /\ rd.phase = "ended") =>
    /\ svc.currentMessage = "Hello world"
    /\ Len(SelectSeq(svc.calls, LAMBDA c : c.handler = "onDone")) = 1
    /\ svc.state = "disconnected"

C4_Witness ==
  /\ body = HelloBody
  /\ rd.phase = "ended"
  /\ Len(svc.calls) = 5

(***************************************************************************)
(* Properties of the service among its callers, checked in Spec.           *)
(***************************************************************************)
Newest == Len(streams)

\* C2 as the specification states it: when the newest stream has ended, the
\* message is the concatenation of the contents of its token events.  An
\* earlier stream that is still read adds its tokens to the message.
C2_MessageIsOwnTokens ==
  (streams # <<>> /\ streams[Newest].phase = "done") =>
    svc.currentMessage = streams[Newest].own

\* C5 as the specification states it: from closeConnection to the next
\* startStream the state is disconnected and retryCount does not change.
C5_ClosedStaysDisconnected ==
  [][(closed /\ closed') =>
       (svc'.state = "disconnected" /\ svc'.retryCount = svc.retryCount)]_vars

\* C6 as the specification states it: once the connection is closed no read
\* loop processes a line.
C6_NoReadAfterClose ==
  [][closed => ~(\E k \in 1..Len(streams) : \E l \in 1..Len(SpecLines) : ReadLine(k, l))]_vars

\* C7 as the specification states it: one read loop at most is reading, and
\* the message holds the tokens of the newest stream only.
C7_OneReadLoop ==
  /\ Cardinality({k \in 1..Len(streams) : streams[k].phase = "reading"}) <= 1
  /\ streams # <<>> => svc.currentMessage = streams[Newest].own

\* the timers whose callback is a reconnection: attemptReconnection's and the
\* one handleErrorEvent sets for retry_after
ReconnectionTimers == {t \in svc.timers : t.kind \in {"retry", "retry_after"}}

\* C8 as the specification states it: one reconnection timer at most is
\* pending.
C8_OneReconnectionTimer == Cardinality(ReconnectionTimers) <= 1

(***************************************************************************)
(* Properties of the circuit breaker, checked in SpecRecovery.             *)
(***************************************************************************)
OpenWithinTimeout ==
  /\ erm.circuitBreakerState = "open"
  /\ now - erm.lastFailureTime < rcfg.circuitBreakerTimeout

\* attemptRecovery is entered: by a caller, or by the recursive call
Entered ==
  \/ \E error \in CallErrors : AttemptRecovery(error)
  \/ \E i \in DOMAIN tasks : Retry(i)

\* C9: with a threshold of 5, a failure of the recovery function that brings
\* the count of consecutive failures to 5 or more leaves the breaker open
\* with lastFailureTime the time of the failure; and an attemptRecovery
\* entered while the breaker is open and the timeout has not elapsed neither
\* invokes the recovery function nor changes the failure count.
C9_BreakerTrips ==
  [][/\ ((\E i \in DOMAIN tasks : RecoveryRejects(i))
           /\ rcfg.circuitBreakerThreshold = 5 /\ erm'.failureCount >= 5)
         => (erm'.circuitBreakerState = "open" /\ erm'.lastFailureTime = now)
     /\ (OpenWithinTimeout /\ Entered)
         => (erm'.recoveries = erm.recoveries /\ erm'.failureCount = erm.failureCount)
    ]_vars

\* five attempts for connection_failed have failed in a row, and the next
\* call was turned away by the open breaker
C9_Witness ==
  /\ Len(tasks) = 2
  /\ tasks[1].error = "connection_failed"
  /\ tasks[1].attemptCount = 6
  /\ tasks[2].error = "connection_failed"
  /\ tasks[2].why = "suppressed"
  /\ erm.failureCount = 5
  /\ erm.recoveries = 5
  /\ erm.circuitBreakerState = "open"
  /\ erm.lastFailureTime > 1

\* the call is one attemptRecovery gives up on: its error is not retryable,
\* or it is past the retries of its classification
GivenUp(c) ==
  LET classification == classifyError(erm, c.error)
  IN ~classification.retryable \/ c.attemptCount > classification.maxRetries

\* the call c has returned false and the manager is as before, but for
\* lastFailureTime
Suppressed(c) ==
  /\ c.pc = "returned" /\ c.result = "false"
  /\ erm'.recoveries = erm.recoveries
  /\ erm'.circuitBreakerState = erm.circuitBreakerState
  /\ erm'.failureCount = erm.failureCount
  /\ erm'.recoveryAttempts = erm.recoveryAttempts

\* C10 as the specification states it: an attemptRecovery entered while the
\* breaker is open and the timeout has not elapsed returns false, does not
\* invoke the recovery function and changes none of the breaker state, the
\* failure count, lastFailureTime and the history.
C10_SuppressedUnchanged ==
  [][OpenWithinTimeout =>
       /\ \A error \in CallErrors : AttemptRecovery(error) =>
            (Suppressed(tasks'[Len(tasks')])
               /\ erm'.lastFailureTime = erm.lastFailureTime)
       /\ \A i \in DOMAIN tasks : Retry(i) =>
            (Suppressed(tasks'[i]) /\ erm'.lastFailureTime = erm.lastFailureTime)
    ]_vars

\* C10: an attemptRecovery entered while the breaker is open and the timeout
\* has not elapsed returns false, does not invoke the recovery function and
\* changes none of the breaker state, the failure count and the history;
\* lastFailureTime is unchanged too, unless the call is one attemptRecovery
\* gives up on, which sets lastFailureTime to the time of the call.
C10_Suppressed ==
  [][OpenWithinTimeout =>
       /\ \A error \in CallErrors : AttemptRecovery(error) =>
            LET c == tasks'[Len(tasks')] IN
            /\ Suppressed(c)
            /\ erm'.lastFailureTime = IF GivenUp(c) THEN now ELSE erm.lastFailureTime
       /\ \A i \in DOMAIN tasks : Retry(i) =>
            LET c == tasks'[i] IN
            /\ Suppressed(c)
            /\ erm'.lastFailureTime = IF GivenUp(c) THEN now ELSE erm.lastFailureTime
    ]_vars

\* time has passed since the breaker opened, and a call was turned away by
\* it while another was given up
C10_Witness ==
  /\ erm.circuitBreakerState = "open"
  /\ now > erm.lastFailureTime
  /\ \E i \in DOMAIN tasks : tasks[i].why = "suppressed"
  /\ \E i \in DOMAIN tasks : tasks[i].why = "rejected"

(***************************************************************************)
(* Transitions of the circuit breaker, checked in SpecRecovery.            *)
(***************************************************************************)
\* C11: a step that takes the breaker to open sets lastFailureTime to the
\* time of the step, and a step that takes it to half_open starts from open
\* with at least circuitBreakerTimeout elapsed since lastFailureTime.
C11_BreakerTransitions ==
  [][/\ (erm.circuitBreakerState # "open" /\ erm'.circuitBreakerState = "open")
          => erm'.lastFailureTime = now
     /\ (erm.circuitBreakerState # "half_open" /\ erm'.circuitBreakerState = "half_open")
          => /\ erm.circuitBreakerState = "open"
             /\ now - erm.lastFailureTime >= rcfg.circuitBreakerTimeout
    ]_vars

\* the breaker was opened after time had passed, and is half_open now
C11_Witness ==
  /\ erm.circuitBreakerState = "half_open"
  /\ erm.lastFailureTime > 1
  /\ now >= erm.lastFailureTime + rcfg.circuitBreakerTimeout

\* C12 as the specification states it: a failure of the recovery function
\* while the breaker is half_open leaves the breaker open with
\* lastFailureTime the time of the failure.
C12_HalfOpenFailureReopens ==
  [][(erm.circuitBreakerState = "half_open"
        /\ \E i \in DOMAIN tasks : RecoveryRejects(i))
       => (erm'.circuitBreakerState = "open" /\ erm'.lastFailureTime = now)]_vars

\* C13 as the specification states it: while the breaker is half_open the
\* recovery function is invoked once at most.
C13_OneTrialInHalfOpen ==
  erm.circuitBreakerState = "half_open" => erm.trials <= 1

\* C14: when the recovery function succeeds while the breaker is half_open,
\* the breaker is closed and the failure count 0 afterwards.
C14_HalfOpenSuccessCloses ==
  [][(erm.circuitBreakerState = "half_open"
        /\ \E i \in DOMAIN tasks : RecoveryResolves(i))
       => (erm'.circuitBreakerState = "closed" /\ erm'.failureCount = 0)]_vars

\* failures were counted and the breaker was opened; it is closed again
\* with the count at 0 by a call that recovered
C14_Witness ==
  /\ erm.circuitBreakerState = "closed"
  /\ erm.failureCount = 0
  /\ erm.lastFailureTime > 0
  /\ \E i \in 1..Len(erm.recoveryAttempts) : ~erm.recoveryAttempts[i].success
  /\ \E i \in DOMAIN tasks : tasks[i].why = "recovered"

\* C20 as the specification states it: while the network quality is offline no
\* step invokes a recovery function.
C20_NoRecoveryWhileOffline ==
  [][quality(erm) = "offline" => erm'.recoveries = erm.recoveries]_vars

(***************************************************************************)
(* Properties of single calls, checked in SpecCalc.                        *)
(***************************************************************************)
\* C15: for an error of type auth_error or parse_error, attemptRecovery
\* returns false without invoking the recovery function and without a delay,
\* and handleConnectionError schedules no reconnection, whatever maxRetries,
\* attempt number, breaker state and network quality.
C15_NoRetryForAuthAndParse ==
  calc.error \in {"auth_error", "parse_error"} =>
    /\ calc.op = "attemptRecovery" =>
         /\ erm.recoveries = 0
         /\ tasks[1].pc = "returned"
         /\ tasks[1].result = "false"
         /\ erm.recoveryAttempts = <<>>
    /\ calc.op = "handleConnectionError" =>
         /\ svc.timers = {}
         /\ svc.retryTimeout = 0
         /\ svc.retryCount = 0
         /\ svc.state = "error"

C15_Witness ==
  /\ calc.op = "attemptRecovery"
  /\ calc.error = "auth_error"
  /\ calc.attemptCount = 1
  /\ rcfg.maxRetries = 5
  /\ quality(erm) = "poor"
  /\ tasks[1].result = "false"
  /\ erm.recoveries = 0

\* C17: for strategy exponential_backoff (backoffMultiplier is 1, 2 or 3) the
\* delay calculateDelay returns never exceeds maxDelay, with or without
\* jitter, and with jitter disabled no earlier attempt has a larger delay.
C17_ExponentialDelayMonotoneAndCapped ==
  (calc.op = "calculateDelay" /\ calc.classification.strategy = "exponential_backoff") =>
    /\ calc.delay <= rcfg.maxDelay
    /\ ~rcfg.jitterEnabled =>
         \A a \in 1..calc.attemptCount, b \in 1..calc.attemptCount :
           a <= b => calculateDelay(erm, rcfg, calc.classification, a, calc.random)
                       <= calculateDelay(erm, rcfg, calc.classification, b, calc.random)

C17_Witness ==
  /\ calc.op = "calculateDelay"
  /\ calc.classification.strategy = "exponential_backoff"
  /\ calc.attemptCount = MaxAttempt
  /\ rcfg.backoffMultiplier = 2
  /\ ~rcfg.jitterEnabled
  /\ calc.delay = rcfg.maxDelay
  /\ calculateDelay(erm, rcfg, calc.classification, 1, calc.random) < calc.delay

\* C18: without jitter calculateDelay returns min(d, maxDelay), d being 0 for
\* immediate_retry, baseDelay * attempt for linear_backoff, baseDelay *
\* multiplier^(attempt-1) for exponential_backoff, circuitBreakerTimeout for
\* circuit_breaker with the breaker open and baseDelay otherwise; with jitter
\* the result lies between min(d, maxDelay) and min(1.1 * d, maxDelay).
C18_DelayByStrategy ==
  calc.op = "calculateDelay" =>
    LET c == calc.classification
        d == IF c.strategy = "immediate_retry" THEN 0
             ELSE IF c.strategy = "linear_backoff" THEN c.baseDelay * calc.attemptCount
             ELSE IF c.strategy = "exponential_backoff"
             THEN c.baseDelay * rcfg.backoffMultiplier ^ (calc.attemptCount - 1)
             ELSE IF c.strategy = "circuit_breaker" /\ erm.circuitBreakerState = "open"
             THEN rcfg.circuitBreakerTimeout
             ELSE c.baseDelay
    IN IF rcfg.jitterEnabled
       THEN /\ calc.delay >= (IF d <= rcfg.maxDelay THEN d ELSE rcfg.maxDelay)
            /\ 10 * calc.delay <= 11 * d
            /\ calc.delay <= rcfg.maxDelay
       ELSE calc.delay = (IF d <= rcfg.maxDelay THEN d ELSE rcfg.maxDelay)

C18_Witness ==
  /\ calc.op = "calculateDelay"
  /\ calc.classification.strategy = "linear_backoff"
  /\ calc.classification.baseDelay = 2000
  /\ calc.attemptCount = 2
  /\ rcfg.jitterEnabled
  /\ calc.random = 999
  /\ calc.delay = 4399

\* C19: under network quality poor classifyError returns the entry of the table
\* with strategy linear_backoff, maxRetries max(1, floor(maxRetries / 2)) and
\* baseDelay doubled, and type, severity and retryable as in the table.
C19_PoorClassification ==
  (calc.op = "classifyError" /\ quality(erm) = "poor") =>
    LET entry == ERROR_CLASSIFICATION_RULES[calc.error]
        half == entry.maxRetries \div 2
    IN calc.classification =
         Rule(entry.type, entry.severity, entry.retryable, "linear_backoff",
              IF half >= 1 THEN half ELSE 1, entry.baseDelay + entry.baseDelay)

C19_Witness ==
  /\ calc.op = "classifyError"
  /\ quality(erm) = "poor"
  /\ calc.error = "connection_failed"
  /\ calc.classification.strategy = "linear_backoff"
  /\ calc.classification.maxRetries = 2
  /\ calc.classification.baseDelay = 4000
  /\ calc.classification.severity = "high"

(***************************************************************************)
(* Properties of one attemptRecovery call, checked in SpecAttempt.         *)
(***************************************************************************)
\* the call was made and returned
Returned == tasks # <<>> /\ tasks[1].pc = "returned"

\* a step that enters attemptRecovery, by the caller or by the recursion
Entry == tasks' # tasks /\ (tasks = <<>> \/ tasks[1].pc = "retry")

MalformedLine == DataPrefix \o TxtMalformed \o NL
WithoutMalformed == SelectSeq(body, LAMBDA w : Pieces[w] # MalformedLine)

\* the service after all lines of `b` were processed, and after the end of
\* the body was reported too when `ended`
AfterBody(b, ended) ==
  LET s == processChunk(ConnectedService, NoRead, Bytes(b)).svc
  IN IF ended THEN updateConnectionState(s, "disconnected") ELSE s

ParseCalls(calls) == SelectSeq(calls, LAMBDA c : c.via = "parse")
OtherCalls(calls) == SelectSeq(calls, LAMBDA c : c.via # "parse")

\* C21: when all of a body with malformed lines has been read, and when its
\* end has been reported, the service is as it is for the body without these
\* lines (connection state, accumulators, timers, the events dispatched and
\* the handlers invoked for them), but for one onError call with code
\* PARSE_ERROR more per malformed line.
C21_MalformedLineOnlyReported ==
  (rd.phase \in {"reading", "ended"} /\ pos = Len(Bytes(body))
     /\ Len(WithoutMalformed) < Len(body)) =>
    LET expected == AfterBody(WithoutMalformed, rd.phase = "ended")
    IN /\ [svc EXCEPT !.calls = <<>>] = [expected EXCEPT !.calls = <<>>]
       /\ OtherCalls(svc.calls) = OtherCalls(expected.calls)
       /\ Len(ParseCalls(svc.calls))
            = Len(ParseCalls(expected.calls)) + Len(body) - Len(WithoutMalformed)
       /\ \A i \in 1..Len(svc.calls) :
            svc.calls[i].via = "parse" =>
              /\ svc.calls[i].handler = "onError"
              /\ svc.calls[i].event.code = "PARSE_ERROR"

\* a malformed line, then a token line: the token is accumulated
C21_Witness ==
  /\ rd.phase = "reading"
  /\ pos = Len(Bytes(body))
  /\ Len(body) = 2
  /\ Pieces[body[1]] = MalformedLine
  /\ Len(ParseCalls(svc.calls)) = 1
  /\ svc.calls[1].via = "parse"
  /\ svc.calls[2].handler = "onToken"
  /\ svc.currentMessage = "Hel"
  /\ svc.state = "connected"

\* the [DONE] line, and the first i pieces of the body
DoneSignalLine == DataPrefix \o TxtDoneSignal \o NL
Upto(i) == SubSeq(body, 1, i)

\* all bytes of the first i pieces have been read
HasRead(i) == rd.phase \in {"reading", "ended"} /\ pos >= Len(Bytes(Upto(i)))

\* what the getters of the service return
Accumulated(s) ==
  <<s.currentMessage, s.currentSources, s.currentCitations, s.currentClaims,
    s.currentClaimsGroup>>

OnDoneCalls == SelectSeq(svc.calls, LAMBDA c : c.handler = "onDone")

\* a done event or a [DONE] line was seen in the stream
TerminalSeen ==
  \/ OnDoneCalls # <<>>
  \/ \E i \in 1..Len(body) : Pieces[body[i]] = DoneSignalLine

\* C22 as the specification states it: when the end of the body has been
\* reported, the connection is disconnected if a done event or a [DONE] line
\* was seen, and failed with connection_lost if none was.
C22_EndWithoutDoneIsConnectionLost ==
  rd.phase = "ended" =>
    IF TerminalSeen
    THEN svc.state = "disconnected"
    ELSE svc.state \in {"error", "reconnecting"} /\ svc.error = "connection_lost"

\* C28 as the specification states it: once an error event without
\* retry_after has been handled, the connection is no longer connected: it
\* has failed, and a reconnection is scheduled.
C28_ErrorEventEntersRecovery ==
  (rd.phase = "reading" /\ svc.calls # <<>>
     /\ svc.calls[Len(svc.calls)].handler = "onError"
     /\ svc.calls[Len(svc.calls)].via = "event"
     /\ svc.calls[Len(svc.calls)].event.retry_after = 0) =>
    svc.state \in {"error", "reconnecting"}

\* C29 as the specification states it: once a [DONE] line has been read the
\* connection is disconnected, and the handlers invoked and the accumulated
\* state are those of the lines before it.
C29_DoneSignalCompletes ==
  \A i \in 1..Len(body) :
    (Pieces[body[i]] = DoneSignalLine /\ HasRead(i)) =>
      /\ svc.state = "disconnected"
      /\ svc.calls = AfterBody(Upto(i), FALSE).calls
      /\ Accumulated(svc) = Accumulated(AfterBody(Upto(i), FALSE))

\* C30 as the specification states it: once a done event has been handled,
\* the accumulated state is the one of the lines up to it, and onDone has
\* been invoked once.
C30_DoneFreezes ==
  \A i \in 1..Len(body) :
    (PieceHandler[body[i]] = "onDone" /\ HasRead(i)) =>
      /\ Accumulated(svc) = Accumulated(AfterBody(Upto(i), FALSE))
      /\ Len(OnDoneCalls) = 1

(***************************************************************************)
(* Properties of reconnection and of the heartbeat watchdog, checked in    *)
(* SpecTimed and, for what must eventually happen, in SpecTimedFair.       *)
(***************************************************************************)
\* C23 as the specification states it: a connection that is reconnecting
\* gets, without an action of the user, to connecting, connected, error or
\* disconnected.
C23_ReconnectingResolves ==
  (svc.state = "reconnecting") ~>
    (svc.state \in {"connecting", "connected", "error", "disconnected"})

\* C24: a step of the error path (the fetch fails, the read fails, a timer
\* fires: watchdog, retry_after, backoff) leaves the accumulated message,
\* sources, citations and claims as they are.
C24_ErrorPathKeepsAccumulated ==
  [][(TFetchFail \/ TReadError \/ \E t \in svc.timers : TTimerFire(t))
       => Accumulated(svc') = Accumulated(svc)]_vars

\* the read failed after a token, a reconnection was scheduled and its timer
\* has fired
C24_Witness ==
  /\ svc.state = "reconnecting"
  /\ svc.error = "network_error"
  /\ svc.retryTimeout # 0
  /\ svc.timers = {}
  /\ svc.currentMessage = "Hel"

\* C25 as the specification states it: a stream that is being read stays
\* connected for at most 2 * heartbeatInterval after the connection or the
\* last event; then it has failed with timeout_error.
C25_WatchdogFromConnect ==
  (Reading /\ svc.state = "connected") =>
    now - streams[1].last <= 2 * config.heartbeatInterval

\* C26 as the specification states it: the watchdog does not fire on a
\* connected stream on which no 2 * heartbeatInterval have passed without an
\* event.
C26_AnyEventRestartsWatchdog ==
  [][\A t \in svc.timers :
       (t.kind = "heartbeat" /\ TTimerFire(t))
         => ~(Reading /\ streams[1].steady /\ svc.state = "connected")]_vars

\* C27 as the specification states it: with enableReconnect, an error event
\* with retry_after sets one timer, due retry_after milliseconds later, and
\* when that timer fires retryCount grows by one at most and no backoff timer
\* of attemptReconnection is started.
C27_RetryAfterSchedulesOnce ==
  [][/\ (config.enableReconnect
            /\ \E l \in 1..Len(TimedLines) :
                 TimedLines[l] = DataLine(TxtErrorRetry) /\ TReadLine(l))
          => \E t \in svc'.timers :
               /\ svc'.timers = svc.timers \cup {t}
               /\ t \notin svc.timers
               /\ t.kind = "retry_after"
               /\ t.due = now + JSONparse(Text(TxtErrorRetry)).value.retry_after
               /\ svc'.retryCount = svc.retryCount
     /\ \A t \in svc.timers :
          (t.kind = "retry_after" /\ TTimerFire(t))
            => /\ svc'.retryCount <= svc.retryCount + 1
               /\ {u \in svc'.timers : u.kind = "retry"} \subseteq svc.timers
    ]_vars

(***************************************************************************)
(* Properties of a completed stream, of the sources and of the             *)
(* notifications of the connection state, checked in SpecParse.            *)
(***************************************************************************)
\* the stream has completed: a done event was handled or a [DONE] line was
\* read, and the connection is disconnected
Completed ==
  /\ svc.state = "disconnected"
  /\ \/ OnDoneCalls # <<>>
     \/ \E i \in 1..Len(body) : Pieces[body[i]] = DoneSignalLine /\ HasRead(i)

\* C31 as the specification states it: once a stream has completed with a
\* done event or [DONE] and the connection is disconnected, it stays
\* disconnected until the next startStream: no timer armed during the stream
\* moves it to error or reconnecting afterwards.
C31_CompletedStaysDisconnected ==
  [][(Completed /\ ~PStartStream) => svc'.state = "disconnected"]_vars

\* the sources payloads dispatched, the onSources calls made, and the urls of
\* a batch in its order
SourcesPayloads == SelectSeq(svc.dispatched, LAMBDA d : d.type = "sources")
OnSourcesCalls == SelectSeq(svc.calls, LAMBDA c : c.handler = "onSources")
Urls(sources) == [k \in 1..Len(sources) |-> sources[k].url]

\* C32 as the specification states it: the batch handed to onSources and the
\* batch stored for a sources event are the sources of its payload, in the
\* payload's order: none removed, merged, reordered or cut off.
C32_SourcesBatchVerbatim ==
  /\ Len(OnSourcesCalls) = Len(SourcesPayloads)
  /\ Len(svc.currentSources) = Len(SourcesPayloads)
  /\ \A k \in 1..Len(SourcesPayloads) :
       /\ Urls(OnSourcesCalls[k].event.sources) = Urls(SourcesPayloads[k].sources)
       /\ Urls(svc.currentSources[k].sources) = Urls(SourcesPayloads[k].sources)

\* C40: onConnectionStateChange is invoked exactly when the connection state
\* changes its value: the states it was invoked with are the values the state
\* took after the initial one, in order, so no two invocations in a row carry
\* the same state and the last one carries the current state; and
\* connectionStatus.connected is true exactly when the state is connected.
C40_NotifiedExactlyOnChange ==
  /\ [](/\ svc.connected = (svc.state = "connected")
        /\ \A k \in 1..Len(svc.notified) - 1 : svc.notified[k] # svc.notified[k + 1]
        /\ IF svc.notified = <<>>
           THEN svc.state = NewService.state
           ELSE /\ svc.notified[1] # NewService.state
                /\ svc.notified[Len(svc.notified)] = svc.state)
  /\ [][svc'.state # svc.state <=> svc'.notified # svc.notified]_vars

\* a done event, then [DONE], then the end of the body: the second and third
\* updateConnectionState("disconnected") notify nobody
C40_Witness ==
  /\ body = <<3, 6>>
  /\ rd.phase = "ended"
  /\ OnDoneCalls # <<>>
  /\ svc.notified = <<"connecting", "connected", "disconnected">>

(***************************************************************************)
(* Properties of the history and of the breaker, checked in SpecRecovery.  *)
(***************************************************************************)
\* the number of attempts getStatus reports as recent
RecentAttempts == 5

\* the attempts whose recovery function has settled
Settled == erm.recoveries - Cardinality({i \in DOMAIN tasks : tasks[i].pc = "recovering"})

\* C33 as the specification states it: the history of recovery attempts the
\* manager stores is bounded: it retains no more than the most recent
\* attempts that getStatus reports.
C33_HistoryBounded == Len(erm.recoveryAttempts) <= RecentAttempts

\* every attempt that has settled is still in the history
HistoryKeepsAll == Len(erm.recoveryAttempts) = Settled

\* C37 as the specification states it: a call of attemptRecovery that
\* succeeds leaves the breaker closed with failureCount 0, also when other
\* calls overlap it.
C37_SuccessLeavesClosed ==
  [][(\E i \in DOMAIN tasks : RecoveryResolves(i)) =>
       (erm'.circuitBreakerState = "closed" /\ erm'.failureCount = 0)]_vars

\* C38: while the breaker is closed, failureCount is below
\* circuitBreakerThreshold.
C38_ClosedBelowThreshold ==
  (rcfg.circuitBreakerThreshold >= 1 /\ erm.circuitBreakerState = "closed") =>
    erm.failureCount < rcfg.circuitBreakerThreshold

\* one failure short of the threshold, the breaker still closed
C38_Witness ==
  /\ erm.circuitBreakerState = "closed"
  /\ erm.failureCount = rcfg.circuitBreakerThreshold - 1
  /\ Len(erm.recoveryAttempts) = erm.failureCount

(***************************************************************************)
(* Properties of a rejected call, checked in SpecCalc.                     *)
(***************************************************************************)
\* the call of attemptRecovery made is one the manager rejects: its error is
\* of a type that is not retried, the network is offline, or its attempt
\* number is above the maxRetries of its classification
RejectedCall ==
  /\ calc.op = "attemptRecovery"
  /\ \/ calc.error \in {"auth_error", "parse_error", "max_retries_exceeded"}
     \/ quality(erm) = "offline"
     \/ calc.attemptCount > calc.classification.maxRetries

\* C39: a call of attemptRecovery that is rejected as not retryable or as
\* beyond maxRetries returns false, whatever failureCount is, with the breaker
\* open and lastFailureTime set to the time of the call.
C39_RejectedCallOpensBreaker ==
  RejectedCall =>
    /\ tasks[1].pc = "returned" /\ tasks[1].result = "false"
    /\ erm.circuitBreakerState = "open"
    /\ erm.lastFailureTime = now

\* the breaker was opened by the fifth failure one millisecond ago: the
\* rejected call, its sixth attempt, restarts the timeout
C39_Witness ==
  /\ RejectedCall
  /\ calc.error = "connection_failed"
  /\ calc.attemptCount > calc.classification.maxRetries
  /\ quality(erm) # "offline"
  /\ erm.failureCount = rcfg.circuitBreakerThreshold
  /\ erm.circuitBreakerState = "open"
  /\ erm.lastFailureTime = now

(***************************************************************************)
(* Properties of the retry count, checked in Spec and in SpecTimed.        *)
(***************************************************************************)
\* C35: retryCount never exceeds config.maxRetries, and whenever the
\* connection state is connected, retryCount is 0 and the error is null.
C35_RetryCountBounded ==
  /\ svc.retryCount <= config.maxRetries
  /\ svc.state = "connected" => (svc.retryCount = 0 /\ svc.error = "null")

\* the retries are used up and a timer of an error event is still to fire
C35_Witness ==
  /\ config.maxRetries = 2
  /\ svc.retryCount = config.maxRetries
  /\ \E t \in svc.timers : t.kind = "retry_after"

\* a stream that failed and was retried, and the next one connected
C35_WitnessConnected ==
  /\ Len(streams) = 2
  /\ streams[1].phase = "failed"
  /\ streams[2].phase = "reading"
  /\ svc.state = "connected"
  /\ svc.retryCount = 0

\* a step on the error path: the fetch or the read fails, or the watchdog fires
ConnectionErrorStep ==
  \/ TFetchFail
  \/ TReadError
  \/ \E t \in svc.timers : t.kind = "heartbeat" /\ TTimerFire(t)

\* C36: with enableReconnect false the connection state is never
\* reconnecting and retryCount stays 0, whatever fails, times out or arrives
\* as an error event, with retry_after or without; a connection error leaves
\* the state at error.
C36_NoReconnectWhenDisabled ==
  /\ [](~config.enableReconnect =>
          (svc.state # "reconnecting" /\ svc.retryCount = 0))
  /\ [][(~config.enableReconnect /\ ConnectionErrorStep) => svc'.state = "error"]_vars

\* reconnection disabled: a heartbeat and another event that is no token
\* have arrived, and the watchdog has fired
C36_Witness ==
  /\ ~config.enableReconnect
  /\ svc.state = "error"
  /\ svc.error = "timeout_error"
  /\ streams[1].own = ""
  /\ nlines = 2
  /\ svc.lastNotified = "error"
  /\ now > 2 * config.heartbeatInterval

(***************************************************************************)
(* Properties of reset(), checked in SpecReset.                            *)
(***************************************************************************)
\* C34: reset() restores the initial state of the breaker (closed,
\* failureCount 0, lastFailureTime 0, the history empty), and it is
\* idempotent: a second reset() of the manager it leaves changes nothing.
C34_ResetIdempotent ==
  [][Reset =>
       /\ \A f \in {"circuitBreakerState", "failureCount", "lastFailureTime",
                     "recoveryAttempts"} : erm'[f] = NewManager[f]
       /\ erm'.circuitBreakerState = "closed"
       /\ erm'.failureCount = 0
       /\ erm'.lastFailureTime = 0
       /\ erm'.recoveryAttempts = <<>>
       /\ reset(erm') = erm'
       /\ reset(reset(erm)) = reset(erm)]_vars

\* reset() was called on a manager whose breaker had been opened by a call
\* that failed until its retries were used up
C34_Witness ==
  /\ calc.op = "reset"
  /\ erm.recoveries >= 3
  /\ tasks # <<>> /\ tasks[1].pc = "returned" /\ tasks[1].result = "false"
  /\ erm.circuitBreakerState = "closed"
  /\ erm.failureCount = 0
  /\ erm.lastFailureTime = 0
  /\ erm.recoveryAttempts = <<>>
====
